---- MODULE Spec2Model ----
(***************************************************************************)
(* Model of the WebWindRider heat-map front end: the nested treemap layout *)
(* of AllSectorsHeatmap (sectors, then the stocks of each sector), the     *)
(* single-sector layout of StockHeatmap / utils/treemap.ts, and the        *)
(* rendering effect that rebuilds the SVG from the component's props.      *)
(*                                                                         *)
(* The components call d3.hierarchy(...).sum(...).sort(...) and            *)
(* d3.treemap()...round(true).  Those library calls are modelled by what   *)
(* d3-hierarchy does (squarified tiling with the golden ratio, padding,    *)
(* Math.round of every coordinate).  JavaScript numbers are modelled as    *)
(* exact rationals <<n, d>>; products that exceed the machine integers of  *)
(* the checker are computed on digit sequences (base 10000).  A coordinate *)
(* that is exactly a half-integer is rounded up, as Math.round does; the   *)
(* floating-point computation can leave such a coordinate one ulp below    *)
(* the half and round it down, which moves that edge by one pixel.         *)
(***************************************************************************)
EXTENDS Integers, Sequences, FiniteSets, TLC

(***************************************************************************)
(* Natural numbers of any size, little-endian digit sequences.             *)
(***************************************************************************)
Base == 10000

RECURSIVE BNat(_)
BNat(n) == IF n = 0 THEN <<>> ELSE <<n % Base>> \o BNat(n \div Base)

RECURSIVE BTrim(_)
BTrim(a) == IF a # <<>> /\ a[Len(a)] = 0 THEN BTrim(SubSeq(a, 1, Len(a) - 1)) ELSE a

RECURSIVE BAddC(_, _, _)
BAddC(a, b, c) ==
    IF a = <<>> /\ b = <<>> THEN (IF c = 0 THEN <<>> ELSE <<c>>)
    ELSE LET x == IF a = <<>> THEN 0 ELSE Head(a)
             y == IF b = <<>> THEN 0 ELSE Head(b)
             s == x + y + c
         IN  <<s % Base>> \o BAddC(IF a = <<>> THEN <<>> ELSE Tail(a),
                                   IF b = <<>> THEN <<>> ELSE Tail(b), s \div Base)

BAdd(a, b) == BAddC(a, b, 0)

\* a - b for a >= b
RECURSIVE BSubC(_, _, _)
BSubC(a, b, c) ==
    IF a = <<>> THEN <<>>
    ELSE LET y == IF b = <<>> THEN 0 ELSE Head(b)
             s == Head(a) - y - c
         IN  <<IF s < 0 THEN s + Base ELSE s>>
                 \o BSubC(Tail(a), IF b = <<>> THEN <<>> ELSE Tail(b), IF s < 0 THEN 1 ELSE 0)

BSub(a, b) == BTrim(BSubC(a, b, 0))

RECURSIVE BMulDigit(_, _, _)
BMulDigit(a, k, c) ==
    IF a = <<>> THEN (IF c = 0 THEN <<>> ELSE <<c>>)
    ELSE LET s == Head(a) * k + c
         IN  <<s % Base>> \o BMulDigit(Tail(a), k, s \div Base)

RECURSIVE BMul(_, _)
BMul(a, b) ==
    IF a = <<>> \/ b = <<>> THEN <<>>
    ELSE BAdd(BMulDigit(a, Head(b), 0),
              LET r == BMul(a, Tail(b)) IN IF r = <<>> THEN <<>> ELSE <<0>> \o r)

\* -1, 0, 1 as a < b, a = b, a > b
RECURSIVE BCmpFrom(_, _, _)
BCmpFrom(a, b, i) ==
    IF i = 0 THEN 0
    ELSE IF a[i] < b[i] THEN -1
    ELSE IF a[i] > b[i] THEN 1
    ELSE BCmpFrom(a, b, i - 1)

BCmp(a, b) ==
    IF Len(a) < Len(b) THEN -1
    ELSE IF Len(a) > Len(b) THEN 1
    ELSE BCmpFrom(a, b, Len(a))

\* the product of a sequence of natural numbers
RECURSIVE BProd(_)
BProd(ns) == IF ns = <<>> THEN <<1>> ELSE BMul(BNat(Head(ns)), BProd(Tail(ns)))

(***************************************************************************)
(* Exact rationals <<n, d>>, d > 0, in lowest terms.                       *)
(***************************************************************************)
Abs(n) == IF n < 0 THEN -n ELSE n

RECURSIVE Gcd(_, _)
Gcd(a, b) == IF b = 0 THEN a ELSE Gcd(b, a % b)

Rat(n, d) ==
    LET g == Gcd(Abs(n), Abs(d))
        s == IF d < 0 THEN -1 ELSE 1
    IN  IF n = 0 THEN <<0, 1>> ELSE <<s * (n \div g), s * (d \div g)>>

RInt(n) == <<n, 1>>
\* n/d + m/e over the common denominator (d/g) * e, g = gcd(d, e)
RAddOver(a, b, g) ==
    Rat(a[1] * (b[2] \div g) + b[1] * (a[2] \div g), (a[2] \div g) * b[2])
RAdd(a, b) == RAddOver(a, b, Gcd(a[2], b[2]))
RSub(a, b) == RAdd(a, <<-b[1], b[2]>>)
RMul(a, b) ==
    LET g1 == Gcd(Abs(a[1]), b[2])
        g2 == Gcd(Abs(b[1]), a[2])
    IN  IF a[1] = 0 \/ b[1] = 0 THEN <<0, 1>>
        ELSE <<(a[1] \div g1) * (b[1] \div g2), (a[2] \div g2) * (b[2] \div g1)>>
RHalf(a) == Rat(a[1], 2 * a[2])
RLess(a, b) == RSub(a, b)[1] < 0
RLeq(a, b) == RSub(a, b)[1] <= 0
RMin(a, b) == IF RLess(b, a) THEN b ELSE a
RMax(a, b) == IF RLess(a, b) THEN b ELSE a

\* floor of n/d for d > 0
Floor(n, d) == IF n >= 0 THEN n \div d ELSE -((-n + d - 1) \div d)

\* Math.round: the nearest integer, halves towards +Infinity
MathRound(a) == Floor(2 * a[1] + a[2], 2 * a[2])

(***************************************************************************)
(* d3-hierarchy: squarified tiling.  Node values are natural numbers, the  *)
(* rectangle is rational.  ratio is the golden ratio phi, so the test      *)
(* newRatio > minRatio is decided exactly from phi^2 = phi + 1.            *)
(***************************************************************************)

\* (phi + 1) * A > B for digit sequences A > 0 and B (sqrt 5 is irrational,
\* so the two sides are never equal)
\* phi * A > D  <=>  sqrt(5) * A > 2 * D - A
SqrtFiveTimesGreater(A, E) == BCmp(BMul(BNat(5), BMul(A, A)), BMul(E, E)) > 0
PhiTimesGreater(A, D2) ==
    IF BCmp(D2, A) <= 0 THEN TRUE ELSE SqrtFiveTimesGreater(A, BSub(D2, A))
PhiSqTimesGreater(A, B) ==
    IF BCmp(B, A) <= 0 THEN TRUE ELSE PhiTimesGreater(A, BMul(BNat(2), BSub(B, A)))

\* with c = value * phi * S / L (the reciprocal of alpha), a row of sum s,
\* least value m and greatest value M has ratio max(M*c/s^2, s^2/(m*c)).
\* CSqTimesGreater(k, q, ...) is  k * c^2 > q^2 ; CSqTimesLess is  k * c^2 < q^2.
CSqTimesGreater(k, q, value, S, L) ==
    PhiSqTimesGreater(BProd(<<k, value, value, S[1], S[1], L[2], L[2]>>),
                      BProd(<<q, q, L[1], L[1], S[2], S[2]>>))
CSqTimesLess(k, q, value, S, L) ==
    ~PhiSqTimesGreater(BProd(<<k, value, value, S[1], S[1], L[2], L[2]>>),
                       BProd(<<q, q, L[1], L[1], S[2], S[2]>>))

\* newRatio > minRatio, where minRatio is the ratio of the row (s, m, M) and
\* newRatio the ratio of the row (s2, m2, M2) with the next node added
RatioWorse(s, m, M, s2, m2, M2, value, dx, dy) ==
    IF value = 0 \/ dx[1] = 0 \/ dy[1] = 0 THEN FALSE   \* alpha is Infinity or NaN
    ELSE IF m2 = 0 THEN TRUE                            \* beta / 0 = Infinity
    ELSE LET S == RMin(dx, dy)
             L == RMax(dx, dy)
             a2gta == BCmp(BProd(<<M2, s, s>>), BProd(<<M, s2, s2>>)) > 0
             b2gtb == BCmp(BProd(<<s2, s2, m>>), BProd(<<s, s, m2>>)) > 0
             a2gtb == CSqTimesGreater(M2 * m, s * s2, value, S, L)
             b2gta == CSqTimesLess(M * m2, s * s2, value, S, L)
         IN  (a2gta /\ a2gtb) \/ (b2gta /\ b2gtb)

\* do sumValue = nodes[i1++].value; while (!sumValue && i1 < n)
RECURSIVE FirstNonEmpty(_, _)
FirstNonEmpty(vals, i) ==
    IF vals[i] # 0 \/ i = Len(vals) THEN i ELSE FirstNonEmpty(vals, i + 1)

\* the for loop: the index after the last node of the row, and the row's sum
RECURSIVE RowEnd(_, _, _, _, _, _, _, _)
RowEnd(vals, i1, s, m, M, value, dx, dy) ==
    IF i1 > Len(vals) THEN <<i1, s>>
    ELSE LET v  == vals[i1]
             s2 == s + v
             m2 == IF v < m THEN v ELSE m
             M2 == IF v > M THEN v ELSE M
         IN  IF RatioWorse(s, m, M, s2, m2, M2, value, dx, dy) THEN <<i1, s>>
             ELSE RowEnd(vals, i1 + 1, s2, m2, M2, value, dx, dy)

Rect(x0, y0, x1, y1) == [x0 |-> x0, y0 |-> y0, x1 |-> x1, y1 |-> y1]

\* treemapDice, were x0 not advanced from one node to the next
RECURSIVE TreemapDiceNoAdvance(_, _, _, _, _, _, _)
TreemapDiceNoAdvance(vals, i, j, k, x0, y0, y1) ==
    IF i > j THEN <<>>
    ELSE <<Rect(x0, y0, RAdd(x0, RMul(RInt(vals[i]), k)), y1)>>
            \o TreemapDiceNoAdvance(vals, i + 1, j, k, x0, y0, y1)

\* treemapDice: the nodes i..j side by side from x0, each k * value wide
RECURSIVE TreemapDice(_, _, _, _, _, _, _)
TreemapDice(vals, i, j, k, x0, y0, y1) ==
    IF i > j THEN <<>>
    ELSE LET x1 == RAdd(x0, RMul(RInt(vals[i]), k))
         IN  <<Rect(x0, y0, x1, y1)>> \o TreemapDice(vals, i + 1, j, k, x1, y0, y1)

\* treemapSlice: the nodes i..j one below the other from y0
RECURSIVE TreemapSlice(_, _, _, _, _, _, _)
TreemapSlice(vals, i, j, k, x0, x1, y0) ==
    IF i > j THEN <<>>
    ELSE LET y1 == RAdd(y0, RMul(RInt(vals[i]), k))
         IN  <<Rect(x0, y0, x1, y1)>> \o TreemapSlice(vals, i + 1, j, k, x0, x1, y1)

\* k = parent.value && (extent) / parent.value
RowScale(rowValue, extent) ==
    IF rowValue = 0 THEN <<0, 1>> ELSE RMul(extent, <<1, rowValue>>)

\* squarifyRatio(phi, parent, x0, y0, x1, y1) from node i0 on; value is what
\* is left of parent.value
RECURSIVE Squarify(_, _, _, _, _, _, _)

\* the row that starts with the node f: <<index after its last node, its sum>>
RowFrom(vals, f, value, dx, dy) ==
    RowEnd(vals, f + 1, vals[f], vals[f], vals[f], value, dx, dy)

\* value ? a0 += (a1 - a0) * sumValue / value : a1
RowBreak(value, sum, a0, a1) ==
    IF value # 0 THEN RAdd(a0, RMul(RSub(a1, a0), <<sum, value>>)) ELSE a1

\* dx < dy: the row i0..i1-1 is diced over the top of the region, down to
\* yEnd, and the rest of the nodes go below it
DiceRow(vals, i0, i1, sum, value, x0, y0, x1, y1, yEnd) ==
    TreemapDice(vals, i0, i1 - 1, RowScale(sum, RSub(x1, x0)), x0, y0, yEnd)
        \o Squarify(vals, i1, value - sum, x0, IF value # 0 THEN yEnd ELSE y0, x1, y1)

\* otherwise the row is sliced over the left of the region, up to xEnd, and
\* the rest of the nodes go to its right
SliceRow(vals, i0, i1, sum, value, x0, y0, x1, y1, xEnd) ==
    TreemapSlice(vals, i0, i1 - 1, RowScale(sum, RSub(y1, y0)), x0, xEnd, y0)
        \o Squarify(vals, i1, value - sum, IF value # 0 THEN xEnd ELSE x0, y0, x1, y1)

SquarifyRow(vals, i0, value, x0, y0, x1, y1, row) ==
    IF RLess(RSub(x1, x0), RSub(y1, y0))
    THEN DiceRow(vals, i0, row[1], row[2], value, x0, y0, x1, y1,
                 RowBreak(value, row[2], y0, y1))
    ELSE SliceRow(vals, i0, row[1], row[2], value, x0, y0, x1, y1,
                  RowBreak(value, row[2], x0, x1))

Squarify(vals, i0, value, x0, y0, x1, y1) ==
    IF i0 > Len(vals) THEN <<>>
    ELSE SquarifyRow(vals, i0, value, x0, y0, x1, y1,
                     RowFrom(vals, FirstNonEmpty(vals, i0), value,
                             RSub(x1, x0), RSub(y1, y0)))

(***************************************************************************)
(* d3.treemap(): positionNode and roundNode for a root and its children.   *)
(***************************************************************************)

\* positionNode's shrinking of a node by p on every side; a side that would
\* turn negative collapses to its midpoint
Inset(r, px, py) ==
    LET x0 == RAdd(r.x0, px)
        y0 == RAdd(r.y0, py)
        x1 == RSub(r.x1, px)
        y1 == RSub(r.y1, py)
        mx == RHalf(RAdd(x0, x1))
        my == RHalf(RAdd(y0, y1))
    IN  Rect(IF RLess(x1, x0) THEN mx ELSE x0, IF RLess(y1, y0) THEN my ELSE y0,
             IF RLess(x1, x0) THEN mx ELSE x1, IF RLess(y1, y0) THEN my ELSE y1)

\* roundNode
RoundNode(r) == [x0 |-> MathRound(r.x0), y0 |-> MathRound(r.y0),
                 x1 |-> MathRound(r.x1), y1 |-> MathRound(r.y1)]

\* the rectangle the root hands to the tiling: the root at (0, 0, w, h), then
\* x0 += paddingLeft - paddingInner/2 and so on
TileBounds(w, h, pInner, pOuter) ==
    LET root == Inset(Rect(RInt(0), RInt(0), w, h), RInt(0), RInt(0))
        q    == RSub(pOuter, RHalf(pInner))
    IN  Inset(root, q, q)

\* the tiles squarify gives the children, before each child's positionNode
TilesIn(vals, value, b) == Squarify(vals, 1, value, b.x0, b.y0, b.x1, b.y1)
Tiles(vals, value, w, h, pInner, pOuter) ==
    TilesIn(vals, value, TileBounds(w, h, pInner, pOuter))

\* treemap(root), were children that all weigh zero laid out as if each
\* weighed 1
TreemapUniformWhenZero(vals, value, w, h, pInner, pOuter) ==
    LET t == Tiles(IF value = 0 THEN [i \in 1..Len(vals) |-> 1] ELSE vals,
                   IF value = 0 THEN Len(vals) ELSE value, w, h, pInner, pOuter)
    IN  [i \in 1..Len(vals) |-> RoundNode(Inset(t[i], RHalf(pInner), RHalf(pInner)))]

\* treemap(root) with round(true): the children's rectangles, in the order
\* of the (sorted) children
Treemap(vals, value, w, h, pInner, pOuter) ==
    LET t == Tiles(vals, value, w, h, pInner, pOuter)
    IN  [i \in 1..Len(vals) |-> RoundNode(Inset(t[i], RHalf(pInner), RHalf(pInner)))]

(***************************************************************************)
(* d3.hierarchy(data).sum(d => d.value).sort((a, b) => b.value - a.value)  *)
(***************************************************************************)

\* stocks.reduce((sum, stock) => sum + stock.marketCap, 0)
RECURSIVE SumMarketCap(_)
SumMarketCap(stocks) ==
    IF stocks = <<>> THEN 0 ELSE Head(stocks).marketCap + SumMarketCap(Tail(stocks))

RECURSIVE SumValues(_)
SumValues(nodes) == IF nodes = <<>> THEN 0 ELSE Head(nodes).value + SumValues(Tail(nodes))

\* node.sum: the node's own data value plus the values of its children
HierarchySum(dataValue, children) == dataValue + SumValues(children)

\* Array.prototype.sort with the comparator b.value - a.value: descending,
\* and stable
RECURSIVE InsertDesc(_, _)
InsertDesc(sorted, x) ==
    IF sorted = <<>> THEN <<x>>
    ELSE IF Head(sorted).value >= x.value THEN <<Head(sorted)>> \o InsertDesc(Tail(sorted), x)
    ELSE <<x>> \o sorted

\* the nodes, had they not been sorted
Unsorted(seq) == seq

RECURSIVE SortDesc(_)
SortDesc(seq) ==
    IF seq = <<>> THEN <<>>
    ELSE InsertDesc(SortDesc(SubSeq(seq, 1, Len(seq) - 1)), seq[Len(seq)])

\* the values, had the hierarchy been weighed with node.count()
NodeValuesCount(nodes) == [i \in 1..Len(nodes) |-> 1]

\* the values of the children, in their order
NodeValues(nodes) == [i \in 1..Len(nodes) |-> nodes[i].value]

(***************************************************************************)
(* AllSectorsHeatmap                                                       *)
(***************************************************************************)
MobileMaxWidth == 768
IsMobile(width) == width <= MobileMaxWidth

OuterPaddingInner(mobile) == IF mobile THEN 2 ELSE 4
OuterPaddingOuter(mobile) == IF mobile THEN 3 ELSE 6
TitleHeight(mobile)       == IF mobile THEN 24 ELSE 30
SectorInset(mobile)       == IF mobile THEN 4 ELSE 8
StockOffsetX(mobile)      == IF mobile THEN 2 ELSE 4
InnerPadding(mobile)      == IF mobile THEN <<1, 2>> ELSE <<1, 1>>

\* a stock leaf of rootData
StockNode(sectorId, stock) ==
    [id |-> <<sectorId, stock.code>>, value |-> stock.marketCap]

\* a sector of rootData, were its stocks without market cap left out
SectorNodeDroppingZeros(entry) ==
    LET leaves == [j \in 1..Len(entry.stocks) |-> StockNode(entry.id, entry.stocks[j])]
    IN  [id        |-> entry.id,
         dataValue |-> SumMarketCap(entry.stocks),
         value     |-> HierarchySum(SumMarketCap(entry.stocks), leaves),
         children  |-> SelectSeq(SortDesc(leaves), LAMBDA n : n.value > 0)]

\* a sector of rootData as a hierarchy node: data.value is the sum of the
\* market caps, node.value what root.sum(d => d.value) leaves in the node
SectorNode(entry) ==
    LET leaves == [j \in 1..Len(entry.stocks) |-> StockNode(entry.id, entry.stocks[j])]
    IN  [id        |-> entry.id,
         dataValue |-> SumMarketCap(entry.stocks),
         value     |-> HierarchySum(SumMarketCap(entry.stocks), leaves),
         children  |-> SortDesc(leaves)]

\* root = d3.hierarchy(rootData).sum(...).sort(...)
RootNode(data) ==
    LET sectors == [i \in 1..Len(data) |-> SectorNode(data[i])]
    IN  [value |-> HierarchySum(0, sectors), children |-> SortDesc(sectors)]

\* treemap(root): the sectors' rectangles
OuterLayout(root, width, height) ==
    Treemap(NodeValues(root.children), root.value, RInt(width), RInt(height),
            RInt(OuterPaddingInner(IsMobile(width))), RInt(OuterPaddingOuter(IsMobile(width))))

\* sectorRoot, were it given the sector's own value instead of 0
SectorRootKeepingValue(sectorNode) ==
    [value    |-> HierarchySum(sectorNode.dataValue, sectorNode.children),
     children |-> SortDesc(sectorNode.children)]

\* sectorRoot = d3.hierarchy({value: 0, children: stockNodes.map(n => n.data)})
SectorRoot(sectorNode) ==
    [value |-> HierarchySum(0, sectorNode.children), children |-> SortDesc(sectorNode.children)]

SectorWidth(r) == r.x1 - r.x0
SectorHeight(r, mobile) == r.y1 - r.y0 - TitleHeight(mobile)

\* the early return of sectorGroups.each
InnerSkipped(r, mobile) == SectorWidth(r) <= 0 \/ SectorHeight(r, mobile) <= 0

\* sectorTreemap(sectorRoot)
InnerLayout(sectorRoot, r, mobile) ==
    Treemap(NodeValues(sectorRoot.children), sectorRoot.value,
            RInt(SectorWidth(r) - SectorInset(mobile)), RInt(SectorHeight(r, mobile)),
            InnerPadding(mobile), InnerPadding(mobile))

Max0(n) == IF n < 0 THEN 0 ELSE n

\* the rect.stock-rect elements of one sector, were the header strip not
\* added to y
StockRectOverHeader(node, r, d, mobile) ==
    [id     |-> node.id,
     x      |-> r.x0 + StockOffsetX(mobile) + d.x0,
     y      |-> r.y0 + d.y0,
     width  |-> Max0(d.x1 - d.x0),
     height |-> Max0(d.y1 - d.y0)]

\* the rect.stock-rect elements of one sector
StockRect(node, r, d, mobile) ==
    [id     |-> node.id,
     x      |-> r.x0 + StockOffsetX(mobile) + d.x0,
     y      |-> r.y0 + TitleHeight(mobile) + d.y0,
     width  |-> Max0(d.x1 - d.x0),
     height |-> Max0(d.y1 - d.y0)]

StockRectsOf(sectorRoot, r, mobile) ==
    LET t == InnerLayout(sectorRoot, r, mobile)
    IN  [j \in 1..Len(sectorRoot.children) |->
            StockRect(sectorRoot.children[j], r, t[j], mobile)]

StockRects(sectorNode, r, mobile) ==
    IF InnerSkipped(r, mobile) THEN <<>>
    ELSE StockRectsOf(SectorRoot(sectorNode), r, mobile)

\* the g.sector-group elements: the sector's background rect and its stocks
SectorGroup(sectorNode, r, mobile) ==
    [id     |-> sectorNode.id,
     x      |-> r.x0,
     y      |-> r.y0,
     width  |-> r.x1 - r.x0,
     height |-> r.y1 - r.y0,
     stocks |-> StockRects(sectorNode, r, mobile)]

SectorGroupsOf(root, width, height) ==
    LET o == OuterLayout(root, width, height)
    IN  [i \in 1..Len(root.children) |->
            SectorGroup(root.children[i], o[i], IsMobile(width))]

SectorGroups(data, width, height) == SectorGroupsOf(RootNode(data), width, height)

\* the svg, were the elements of the earlier pass not removed
SelectAllKeep(svg) == svg

\* svg.selectAll('*').remove()
SelectAllRemove(svg) == <<>>

\* the rendering effect of AllSectorsHeatmap
RenderAllSectors(svg, data, width, height) ==
    IF Len(data) = 0 THEN svg
    ELSE SelectAllRemove(svg) \o SectorGroups(data, width, height)

(***************************************************************************)
(* StockHeatmap and utils/treemap.ts                                       *)
(***************************************************************************)

\* transformStocksToTreemap: the sector node and its children
TransformStocksToTreemap(stocks) ==
    [value    |-> SumMarketCap(stocks),
     children |-> [j \in 1..Len(stocks) |->
                     [id |-> stocks[j].code, value |-> stocks[j].marketCap]]]

\* d3.hierarchy(data).sum(d => d.value).sort(...) of calculateTreemapLayout
TreemapRoot(treemapData) ==
    [value    |-> HierarchySum(treemapData.value, treemapData.children),
     children |-> SortDesc(treemapData.children)]

\* calculateTreemapLayout(data, config): root.leaves() with their rectangles
\* a leaf of the layout, as StockHeatmap draws it
LeafRect(node, d) ==
    [id     |-> node.id,
     x      |-> d.x0,
     y      |-> d.y0,
     width  |-> Max0(d.x1 - d.x0),
     height |-> Max0(d.y1 - d.y0)]

LeavesOf(root, width, height, paddingOuter, paddingInner) ==
    LET t == Treemap(NodeValues(root.children), root.value, RInt(width), RInt(height),
                     RInt(paddingInner), RInt(paddingOuter))
    IN  [j \in 1..Len(root.children) |-> LeafRect(root.children[j], t[j])]

CalculateTreemapLayout(treemapData, width, height, paddingOuter, paddingInner) ==
    LeavesOf(TreemapRoot(treemapData), width, height, paddingOuter, paddingInner)

StockPaddingOuter == 2
StockPaddingInner == 1

\* the rendering effect of StockHeatmap: the g.stock elements
RenderStocks(svg, stocks, width, height) ==
    IF Len(stocks) = 0 THEN svg
    ELSE SelectAllRemove(svg)
           \o CalculateTreemapLayout(TransformStocksToTreemap(stocks), width, height,
                                     StockPaddingOuter, StockPaddingInner)

(***************************************************************************)
(* Colours and labels of the stock cells.  changePercent is counted in     *)
(* thousandths of a percent: 0.01 is 10 and 4 is 4000.  Strings are        *)
(* sequences of characters, a character outside ASCII written as its code  *)
(* unit ("u2026" is the ellipsis).                                         *)
(***************************************************************************)

\* getColor with the neutral band tested on the signed value
GetColorSignedBand(changePercent) ==
    IF changePercent < 10 THEN "#6B7280"
    ELSE IF changePercent >= 4000 THEN "#DC2626"
    ELSE IF changePercent >= 3000 THEN "#EF4444"
    ELSE IF changePercent >= 2000 THEN "#F87171"
    ELSE IF changePercent >= 1000 THEN "#FCA5A5"
    ELSE "#FEE2E2"

\* getColor of AllSectorsHeatmap
GetColor(changePercent) ==
    IF Abs(changePercent) < 10 THEN "#6B7280"
    ELSE IF changePercent > 0
    THEN IF changePercent >= 4000 THEN "#DC2626"
         ELSE IF changePercent >= 3000 THEN "#EF4444"
         ELSE IF changePercent >= 2000 THEN "#F87171"
         ELSE IF changePercent >= 1000 THEN "#FCA5A5"
         ELSE "#FEE2E2"
    ELSE LET absChange == Abs(changePercent)
         IN  IF absChange >= 4000 THEN "#059669"
             ELSE IF absChange >= 3000 THEN "#10B981"
             ELSE IF absChange >= 2000 THEN "#34D399"
             ELSE IF absChange >= 1000 THEN "#6EE7B7"
             ELSE "#D1FAE5"

\* getColorByChangePercent with the deepest tokens handed out from 3 percent
GetColorByChangePercentFromThree(changePercent) ==
    IF Abs(changePercent) < 10 THEN "#6B7280"
    ELSE IF changePercent > 0
    THEN IF changePercent >= 3000 THEN "#DC2626"
         ELSE IF changePercent >= 2000 THEN "#F87171"
         ELSE IF changePercent >= 1000 THEN "#FCA5A5"
         ELSE "#FEE2E2"
    ELSE IF Abs(changePercent) >= 3000 THEN "#059669"
         ELSE IF Abs(changePercent) >= 2000 THEN "#34D399"
         ELSE IF Abs(changePercent) >= 1000 THEN "#6EE7B7"
         ELSE "#D1FAE5"

\* getColorByChangePercent of utils/treemap.ts, the fill of StockHeatmap
GetColorByChangePercent(changePercent) ==
    IF Abs(changePercent) < 10 THEN "#6B7280"
    ELSE IF changePercent > 0
    THEN IF changePercent >= 4000 THEN "#DC2626"
         ELSE IF changePercent >= 3000 THEN "#EF4444"
         ELSE IF changePercent >= 2000 THEN "#F87171"
         ELSE IF changePercent >= 1000 THEN "#FCA5A5"
         ELSE "#FEE2E2"
    ELSE LET absChange == Abs(changePercent)
         IN  IF absChange >= 4000 THEN "#059669"
             ELSE IF absChange >= 3000 THEN "#10B981"
             ELSE IF absChange >= 2000 THEN "#34D399"
             ELSE IF absChange >= 1000 THEN "#6EE7B7"
             ELSE "#D1FAE5"

\* name.includes(part)
Includes(name, part) ==
    \E i \in 1..(Len(name) - Len(part) + 1) : SubSeq(name, i, i + Len(part) - 1) = part

\* /^[0-9]+$/.test(name)
IsNumeric(name) ==
    /\ name # <<>>
    /\ \A i \in 1..Len(name) : name[i] \in {"0", "1", "2", "3", "4", "5", "6", "7", "8", "9"}

\* name.substring(from, to) for 0 <= from <= to
Substring(name, from, to) == SubSeq(name, from + 1, IF to < Len(name) THEN to ELSE Len(name))

\* the minimum sizes of the labels, <<minWidth, minHeight>>
NameMinSize(mobile)    == IF mobile THEN <<20, 12>> ELSE <<30, 15>>
PercentMinSize(mobile) == IF mobile THEN <<25, 18>> ELSE <<40, 25>>
CharWidth(mobile)      == IF mobile THEN 8 ELSE 12
MaxLimit(mobile)       == IF mobile THEN 6 ELSE 8

\* maxChars without the limit of the profile
MaxCharsUnlimited(w, mobile) ==
    IF w \div CharWidth(mobile) > 2 THEN w \div CharWidth(mobile) ELSE 2

\* maxChars = Math.max(2, Math.min(Math.floor(width / charWidth), maxLimit))
MaxChars(w, mobile) ==
    LET fit == w \div CharWidth(mobile)
        capped == IF fit < MaxLimit(mobile) THEN fit ELSE MaxLimit(mobile)
    IN  IF capped > 2 THEN capped ELSE 2

\* the name label, had the minimum size not been tested
StockTextUngated(w, h, name, mobile) ==
    IF Len(name) <= MaxChars(w, mobile) THEN name
    ELSE IF Includes(name, <<"S", "T">>) \/ Includes(name, <<"*", "S", "T">>)
    THEN Substring(name, 0, MaxChars(w, mobile))
    ELSE IF IsNumeric(name)
    THEN IF Len(name) > 4 THEN Substring(name, Len(name) - 4, Len(name)) ELSE name
    ELSE Substring(name, 0, MaxChars(w, mobile) - 1) \o <<"u2026">>

\* the text of a .stock-text element for a cell w wide and h high
StockText(w, h, name, mobile) ==
    IF w < NameMinSize(mobile)[1] \/ h < NameMinSize(mobile)[2] THEN <<>>
    ELSE IF Len(name) <= MaxChars(w, mobile) THEN name
    ELSE IF Includes(name, <<"S", "T">>) \/ Includes(name, <<"*", "S", "T">>)
    THEN Substring(name, 0, MaxChars(w, mobile))
    ELSE IF IsNumeric(name)
    THEN IF Len(name) > 4 THEN Substring(name, Len(name) - 4, Len(name)) ELSE name
    ELSE Substring(name, 0, MaxChars(w, mobile) - 1) \o <<"u2026">>

DigitChar(n) == <<"0", "1", "2", "3", "4", "5", "6", "7", "8", "9">>[n + 1]

RECURSIVE Digits(_)
Digits(n) == IF n < 10 THEN <<DigitChar(n)>> ELSE Digits(n \div 10) \o <<DigitChar(n % 10)>>

\* changePercent.toFixed(2) of a value with no more than two decimals
ToFixed2(changePercent) ==
    LET hundredths == Abs(changePercent) \div 10
    IN  (IF changePercent < 0 THEN <<"-">> ELSE <<>>)
        \o Digits(hundredths \div 100)
        \o <<".", DigitChar((hundredths % 100) \div 10), DigitChar(hundredths % 10)>>

\* the percent label with the minimum sizes of the two profiles exchanged
StockPercentTextOtherProfile(w, h, changePercent, mobile) ==
    IF w < PercentMinSize(~mobile)[1] \/ h < PercentMinSize(~mobile)[2] THEN <<>>
    ELSE (IF changePercent >= 0 THEN <<"+">> ELSE <<>>) \o ToFixed2(changePercent) \o <<"%">>

\* the text of a .stock-percent-text element
StockPercentText(w, h, changePercent, mobile) ==
    IF w < PercentMinSize(mobile)[1] \/ h < PercentMinSize(mobile)[2] THEN <<>>
    ELSE (IF changePercent >= 0 THEN <<"+">> ELSE <<>>) \o ToFixed2(changePercent) \o <<"%">>

(***************************************************************************)
(* The tooltip of AllSectorsHeatmap.                                       *)
(***************************************************************************)

\* tooltip.getBoundingClientRect().width: a box that is not displayed has none
BoxWidth(tip) == IF tip.display = "block" THEN tip.w ELSE 0

\* updateTooltipPosition that never flips the tooltip
UpdateTooltipPositionUnflipped(tip, point, viewportWidth) ==
    [tip EXCEPT !.left = point[1] + 15, !.top = point[2] - 50]

\* updateTooltipPosition(event), the event at the point <<clientX, clientY>>
UpdateTooltipPosition(tip, point, viewportWidth) ==
    LET tooltipX == point[1] + 15
        tooltipY == point[2] - 50
    IN  [tip EXCEPT
            !.left = IF tooltipX + BoxWidth(tip) > viewportWidth
                     THEN point[1] - BoxWidth(tip) - 15 ELSE tooltipX,
            !.top  = IF tooltipY < 0 THEN point[2] + 10 ELSE tooltipY]

\* showTooltip(event, data): the content of the datum, which takes a box boxW
\* wide, then display block, then the position
ShowTooltip(tip, point, target, boxW, viewportWidth, press) ==
    UpdateTooltipPosition([tip EXCEPT !.content = target, !.w = boxW,
                                      !.display = "block", !.press = press],
                          point, viewportWidth)

\* hideTooltip that leaves the tooltip as it is
HideTooltipMissing(tip) == tip

\* hideTooltip()
HideTooltip(tip) == [tip EXCEPT !.display = "none"]

\* clearTimeout left out
ClearTimeoutMissing(pending, id) == pending

\* clearTimeout(id): a timer that has fired or was cleared is not there
ClearTimeout(pending, id) == pending \ {id}

\* window.innerWidth for the width the page hands to the heat map
InnerWidth(w) == IF w <= MobileMaxWidth THEN w + 48 ELSE w + 160

(***************************************************************************)
(* The state: which heat map is mounted, the record set its props are      *)
(* taken from, the canvas size, and the content of its <svg>.              *)
(*   AllSectorsHeatmap gets sectorsData, width, height;                    *)
(*   StockHeatmap gets the stocks of the selected sector, width, height.   *)
(***************************************************************************)
\* rerun records that the last run of the effect was for props equal to those of
\* the run before it
VARIABLES mounted, sectorsData, width, height, svg, rerun

\* a call of the colour function: its argument and the token it returned
VARIABLES changePercent, fill

\* a call of the text callbacks of a stock leaf: the leaf's datum and size,
\* and the two labels returned
VARIABLES leaf, label

\* double clicks: the calls of fetchXueqiuLink not yet settled, the URLs handed
\* to window.open, and the number of double clicks so far
VARIABLES requests, opened, activations

\* pointer and touch: the stock rects with the dark border, the tooltip div,
\* touchTimeoutRef.current, the timers set and not yet fired or cleared, the
\* presses so far (timer k belongs to press k), and the last mouse event
VARIABLES highlighted, tooltip, touchTimeoutRef, timers, presses, lastEvent

layout    == <<mounted, sectorsData, width, height, svg, rerun>>
painting  == <<changePercent, fill>>
labelling == <<leaf, label>>
links     == <<requests, opened, activations>>
gestures  == <<highlighted, tooltip, touchTimeoutRef, timers, presses, lastEvent>>

\* the home page: the state of HomePage, the calls of healthCheck and of
\* fetchAllSectorsData it has made (loads[k] is the k-th call of
\* fetchAllSectorsData: "flight", "ok" or "failed"), the request whose data
\* sectorsData of the page holds (0: the initial {}), and the time since the
\* interval was set and since the page was mounted, in ticks
VARIABLES autoRefresh, loading, error, isOnline, checking, loads, shown,
          clock, elapsed, userActed, autoLoads

page == <<autoRefresh, loading, error, isOnline, checking, loads, shown,
          clock, elapsed, userActed, autoLoads>>

\* a call of fetchRealTimeStockData: its argument, where it stands ("idle",
\* "primary": awaiting Sina, "backup": awaiting Tencent, "returned",
\* "rejected"), the sources asked so far, what each source answered, whether
\* generateFallbackData was called, and the list returned
VARIABLES stockCodes, pc, asked, primary, backup, generated, result

fetching == <<stockCodes, pc, asked, primary, backup, generated, result>>

\* a stock code, the url the xueqiu-link route answers with for it, and the
\* url StockHeatmap builds for it when the resolution failed (<<>>: not yet)
VARIABLES stockCode, url, fallbackUrl

resolving == <<stockCode, url, fallbackUrl>>

\* a call of updateTooltipPosition: the size of the window, the point of the
\* event, the width and height of the tooltip's box, and the left and top set
VARIABLES viewport, pointer, box, position

placing == <<viewport, pointer, box, position>>

others == <<page, fetching, resolving, placing>>

vars == <<layout, painting, labelling, links, gestures, others>>

\* no colour asked for, no label asked for
NoToken == ""
NoCell  == [w |-> 0, h |-> 0, name |-> <<>>, changePercent |-> 0, mobile |-> FALSE]
NoLabel == [name |-> <<>>, percent |-> <<>>, asked |-> FALSE]
NotPainting  == changePercent = 0 /\ fill = NoToken
NotLabelling == leaf = NoCell /\ label = NoLabel

\* the tooltip div as it is mounted: style display none.  w is the width of the
\* box its content takes, press the press whose timer opened it (0: none)
HiddenTooltip ==
    [display |-> "none", content |-> <<>>, w |-> 0, left |-> 0, top |-> 0, press |-> 0]
NoEvent == [type |-> "none", target |-> <<>>, point |-> <<0, 0>>, turn |-> 0]
NoLinks == requests = <<>> /\ opened = <<>> /\ activations = 0
\* the home page as useState leaves it, before its effects have run
NoPage ==
    /\ autoRefresh = FALSE
    /\ loading = FALSE
    /\ error = FALSE
    /\ isOnline = TRUE
    /\ checking = 0
    /\ loads = <<>>
    /\ shown = 0
    /\ clock = 0
    /\ elapsed = 0
    /\ userActed = FALSE
    /\ autoLoads = 0
\* an answer of a source: failed (no response, a status outside 2xx, or a
\* body that cannot be decoded and split), or the lines of its body
NoAnswer == [failed |-> FALSE, lines |-> <<>>]
NoFetching ==
    /\ stockCodes = <<>>
    /\ pc = "idle"
    /\ asked = <<>>
    /\ primary = NoAnswer
    /\ backup = NoAnswer
    /\ generated = FALSE
    /\ result = <<>>
NoResolving == stockCode = <<>> /\ url = <<>> /\ fallbackUrl = <<>>
NoPosition == [set |-> FALSE, left |-> 0, top |-> 0]
NoPlacing ==
    /\ viewport = <<0, 0>>
    /\ pointer = <<0, 0>>
    /\ box = <<0, 0>>
    /\ position = NoPosition
NoOthers == NoPage /\ NoFetching /\ NoResolving /\ NoPlacing
NoGestures ==
    /\ highlighted = {}
    /\ tooltip = HiddenTooltip
    /\ touchTimeoutRef = 0
    /\ timers = {}
    /\ presses = <<>>
    /\ lastEvent = NoEvent

\* a stock's market cap is 0..MaxCap times the unit of its code: the caps of
\* the listed companies differ by orders of magnitude
MaxCap == 2
LargeCap == 100
CapUnit(code) == IF code = "a1" THEN LargeCap ELSE 1
MarketCaps(code) == {k * CapUnit(code) : k \in 0..MaxCap}

\* the sectors and the codes listed in each, in the order the server lists them
SectorIds == <<"A", "B">>
SectorCodes(sid) == IF sid = "A" THEN <<"a1", "a2", "a3">> ELSE <<"b1">>

\* the sector StockHeatmap shows
SelectedSector == "A"

\* the canvas sizes the page hands to the heat maps
Canvases(component) ==
    IF component = "AllSectorsHeatmap"
    THEN {<<320, 400>>, <<1200, 800>>}
    ELSE {<<40, 30>>, <<800, 600>>}

\* position of x in the sequence seq (0 when absent)
RECURSIVE IndexOf(_, _)
IndexOf(seq, x) ==
    IF seq = <<>> THEN 0
    ELSE IF seq[Len(seq)] = x THEN Len(seq)
    ELSE IndexOf(SubSeq(seq, 1, Len(seq) - 1), x)

\* the stocks with one more stock, at its place in the server's order
InsertStock(list, codes, stock) ==
    LET before == SelectSeq(list, LAMBDA s : IndexOf(codes, s.code) < IndexOf(codes, stock.code))
        after  == SelectSeq(list, LAMBDA s : IndexOf(codes, s.code) > IndexOf(codes, stock.code))
    IN  before \o <<stock>> \o after

HasSector(data, sid) == \E i \in 1..Len(data) : data[i].id = sid
HasStock(list, code) == \E j \in 1..Len(list) : list[j].code = code

\* the record set with one more stock
WithStock(data, sid, stock) ==
    IF HasSector(data, sid)
    THEN [i \in 1..Len(data) |->
            IF data[i].id = sid
            THEN [data[i] EXCEPT !.stocks = InsertStock(@, SectorCodes(sid), stock)]
            ELSE data[i]]
    ELSE LET before == SelectSeq(data, LAMBDA e : IndexOf(SectorIds, e.id) < IndexOf(SectorIds, sid))
             after  == SelectSeq(data, LAMBDA e : IndexOf(SectorIds, e.id) > IndexOf(SectorIds, sid))
         IN  before \o <<[id |-> sid, stocks |-> <<stock>>]>> \o after

\* the record set without one stock; a sector left with no stock is dropped
WithoutStock(data, sid, code) ==
    LET cut == [i \in 1..Len(data) |->
                  IF data[i].id = sid
                  THEN [data[i] EXCEPT !.stocks = SelectSeq(@, LAMBDA s : s.code # code)]
                  ELSE data[i]]
    IN  SelectSeq(cut, LAMBDA e : e.stocks # <<>>)

\* the stocks prop of StockHeatmap
StocksProp(data) ==
    IF HasSector(data, SelectedSector)
    THEN data[CHOOSE i \in 1..Len(data) : data[i].id = SelectedSector].stocks
    ELSE <<>>

\* the sectors whose quotes reach the mounted component
Shown(component) ==
    IF component = "AllSectorsHeatmap" THEN {SectorIds[i] : i \in 1..Len(SectorIds)}
    ELSE {SelectedSector}

Init ==
    /\ NoOthers
    /\ mounted \in {"AllSectorsHeatmap", "StockHeatmap"}
    /\ sectorsData = <<>>
    /\ \E c \in Canvases(mounted) : width = c[1] /\ height = c[2]
    /\ svg = <<>>
    /\ rerun = FALSE
    /\ NotPainting
    /\ NotLabelling
    /\ NoLinks
    /\ NoGestures

\* the effect returns before it touches the svg: no sector, no stock
ReturnsEarly(data) ==
    IF mounted = "AllSectorsHeatmap" THEN Len(data) = 0 ELSE Len(StocksProp(data)) = 0

\* the rendering effect of the mounted component, run after its props changed:
\* useEffect(..., [sectorsData, width, height]) of AllSectorsHeatmap,
\* useEffect(..., [stocks, sectorName, width, height]) of StockHeatmap
Effect(data, w, h) ==
    /\ sectorsData' = data
    /\ width' = w
    /\ height' = h
    /\ svg' = IF mounted = "AllSectorsHeatmap"
              THEN RenderAllSectors(svg, data, w, h)
              ELSE RenderStocks(svg, StocksProp(data), w, h)
    /\ rerun' = (data = sectorsData /\ w = width /\ h = height)
    /\ highlighted' = IF ReturnsEarly(data) THEN highlighted ELSE {}
    /\ presses' = IF ReturnsEarly(data) THEN presses
                  ELSE [k \in 1..Len(presses) |-> [presses[k] EXCEPT !.attached = FALSE]]
    /\ UNCHANGED <<mounted, painting, labelling, links, others>>
    /\ UNCHANGED <<tooltip, touchTimeoutRef, timers, lastEvent>>

\* a stock of a sector gets its first quote
AddStock ==
    \E sid \in Shown(mounted) :
      \E j \in 1..Len(SectorCodes(sid)) : \E cap \in MarketCaps(SectorCodes(sid)[j]) :
        LET code == SectorCodes(sid)[j]
        IN  /\ \A k \in 1..Len(sectorsData) :
                  sectorsData[k].id = sid => ~HasStock(sectorsData[k].stocks, code)
            /\ Effect(WithStock(sectorsData, sid, [code |-> code, marketCap |-> cap]),
                      width, height)

\* a quote changes the market cap of a stock
SetMarketCap ==
    \E i \in 1..Len(sectorsData) : \E j \in 1..Len(sectorsData[i].stocks) :
      \E cap \in MarketCaps(sectorsData[i].stocks[j].code) :
        /\ cap # sectorsData[i].stocks[j].marketCap
        /\ Effect([sectorsData EXCEPT ![i].stocks[j].marketCap = cap], width, height)

\* a stock has no quote any more
RemoveStock ==
    \E i \in 1..Len(sectorsData) : \E j \in 1..Len(sectorsData[i].stocks) :
        Effect(WithoutStock(sectorsData, sectorsData[i].id, sectorsData[i].stocks[j].code),
               width, height)

\* the record set becomes empty
ClearData ==
    /\ sectorsData # <<>>
    /\ Effect(<<>>, width, height)

\* the window is resized
Resize ==
    \E c \in Canvases(mounted) :
        /\ <<width, height>> # c
        /\ Effect(sectorsData, c[1], c[2])

\* a reload brings an equal record set in a new object: the effect runs again
Reload == Effect(sectorsData, width, height)

Next == AddStock \/ SetMarketCap \/ RemoveStock \/ ClearData \/ Resize \/ Reload

Spec == Init /\ [][Next]_vars

(***************************************************************************)
(* The colour function, called on one change.                              *)
(***************************************************************************)

\* the changes asked about run from -MaxChange to MaxChange thousandths
MaxChange == 5500

ColourInit ==
    /\ NoOthers
    /\ mounted \in {"AllSectorsHeatmap", "StockHeatmap"}
    /\ sectorsData = <<>>
    /\ width = 0 /\ height = 0
    /\ svg = <<>>
    /\ rerun = FALSE
    /\ changePercent \in -MaxChange..MaxChange
    /\ fill = NoToken
    /\ NotLabelling
    /\ NoLinks
    /\ NoGestures

\* .attr('fill', d => getColor(d.data.changePercent)) of AllSectorsHeatmap,
\* getColorByChangePercent(stockData.changePercent) of StockHeatmap
Paint ==
    /\ fill = NoToken
    /\ fill' = IF mounted = "AllSectorsHeatmap"
               THEN GetColor(changePercent)
               ELSE GetColorByChangePercent(changePercent)
    /\ UNCHANGED <<layout, changePercent, labelling, links, gestures, others>>

ColourNext == Paint

ColourSpec == ColourInit /\ [][ColourNext]_vars

(***************************************************************************)
(* The text callbacks of AllSectorsHeatmap, called on one cell.            *)
(***************************************************************************)

\* the cells asked about are up to MaxCellWidth wide
MaxCellWidth == 110
CellHeights == {0, 10, 11, 12, 14, 15, 17, 18, 24, 25, 30, 40}

\* names: shorter than any limit, an ST stock, a code of six digits, a code of
\* four digits, a long name, and no name
CellNames ==
    { <<"u4E07", "u79D1">>,
      <<"*", "S", "T", "u6D77", "u6DA6", "u5149", "u4F0F", "u79D1", "u6280">>,
      <<"6", "0", "0", "5", "1", "9">>,
      <<"1", "2", "3", "4">>,
      <<"u8D35", "u5DDE", "u8305", "u53F0", "u9152", "u80A1", "u4EFD", "u6709", "u9650">>,
      <<>> }

CellChanges == {-1500, 2750}

LabelInit ==
    /\ NoOthers
    /\ mounted = "AllSectorsHeatmap"
    /\ sectorsData = <<>>
    /\ width = 0 /\ height = 0
    /\ svg = <<>>
    /\ rerun = FALSE
    /\ NotPainting
    /\ leaf \in [w : 0..MaxCellWidth, h : CellHeights, name : CellNames,
                 changePercent : CellChanges, mobile : BOOLEAN]
    /\ label = NoLabel
    /\ NoLinks
    /\ NoGestures

\* .text(d => ...) of the .stock-text and of the .stock-percent-text element
\* of one leaf
WriteLabels ==
    /\ ~label.asked
    /\ label' = [name    |-> StockText(leaf.w, leaf.h, leaf.name, leaf.mobile),
                 percent |-> StockPercentText(leaf.w, leaf.h, leaf.changePercent, leaf.mobile),
                 asked   |-> TRUE]
    /\ UNCHANGED <<layout, painting, leaf, links, gestures, others>>

LabelNext == WriteLabels

LabelSpec == LabelInit /\ [][LabelNext]_vars

(***************************************************************************)
(* Double clicks on the stock cells of a rendered heat map.                *)
(***************************************************************************)

\* the record set on screen while the cells are clicked, hovered and touched
SampleData ==
    << [id |-> "A", stocks |-> <<[code |-> "a2", marketCap |-> 2],
                                 [code |-> "a3", marketCap |-> 1]>>],
       [id |-> "B", stocks |-> <<[code |-> "b1", marketCap |-> 2]>>] >>

\* the exchange codes of the stocks, as SECTOR_STOCKS lists them
Ticker(code) ==
    CASE code = "a1" -> <<"6", "0", "0", "0", "3", "6">>
      [] code = "a2" -> <<"0", "0", "0", "0", "0", "1">>
      [] code = "a3" -> <<"6", "0", "1", "3", "9", "8">>
      [] OTHER       -> <<"3", "0", "0", "7", "5", "0">>

\* the url GET /api/stocks/xueqiu-link/:stockCode answers with
XueqiuLink(ticker) ==
    <<"https://xueqiu.com/S/", IF ticker[1] \in {"0", "3"} THEN "SZ" ELSE "SH">> \o ticker

\* the fallbackUrl of StockHeatmap
FallbackUrl(ticker) ==
    <<"https://xueqiu.com/S/", IF ticker[1] = "6" THEN "SH" ELSE "SZ">> \o ticker

\* the first frame of the mounted component
FirstFrame(component, data, w, h) ==
    IF component = "AllSectorsHeatmap"
    THEN RenderAllSectors(<<>>, data, w, h)
    ELSE RenderStocks(<<>>, StocksProp(data), w, h)

\* the stock rects of the frame that a pointer can hit, by sector and code
StockCells ==
    IF mounted = "AllSectorsHeatmap"
    THEN UNION {{svg[i].stocks[j].id :
                    j \in {k \in 1..Len(svg[i].stocks) :
                             svg[i].stocks[k].width > 0 /\ svg[i].stocks[k].height > 0}} :
                i \in 1..Len(svg)}
    ELSE {<<SelectedSector, svg[j].id>> :
             j \in {k \in 1..Len(svg) : svg[k].width > 0 /\ svg[k].height > 0}}

\* the sequence without its k-th element
Without(seq, k) == SubSeq(seq, 1, k - 1) \o SubSeq(seq, k + 1, Len(seq))

MaxActivations == 3

LinkInit ==
    /\ NoOthers
    /\ mounted \in {"AllSectorsHeatmap", "StockHeatmap"}
    /\ sectorsData = SampleData
    /\ \E c \in Canvases(mounted) : width = c[1] /\ height = c[2]
    /\ svg = FirstFrame(mounted, sectorsData, width, height)
    /\ rerun = FALSE
    /\ NotPainting
    /\ NotLabelling
    /\ NoLinks
    /\ NoGestures

\* dblclick on a stock rect: handleStockDoubleClick(stock) up to its await
DblClick ==
    \E target \in StockCells :
        /\ activations < MaxActivations
        /\ activations' = activations + 1
        /\ requests' = Append(requests, target[2])
        /\ UNCHANGED <<opened, layout, painting, labelling, gestures, others>>

\* fetchXueqiuLink resolves: window.open(url, '_blank')
ResolverSucceeds ==
    \E k \in 1..Len(requests) :
        /\ requests' = Without(requests, k)
        /\ opened' = Append(opened, XueqiuLink(Ticker(requests[k])))
        /\ UNCHANGED <<activations, layout, painting, labelling, gestures, others>>

\* fetchXueqiuLink rejects: the catch block of the component
ResolverFails ==
    \E k \in 1..Len(requests) :
        /\ requests' = Without(requests, k)
        /\ opened' = IF mounted = "StockHeatmap"
                     THEN Append(opened, FallbackUrl(Ticker(requests[k])))
                     ELSE opened
        /\ UNCHANGED <<activations, layout, painting, labelling, gestures, others>>

LinkNext == DblClick \/ ResolverSucceeds \/ ResolverFails

LinkSpec == LinkInit /\ [][LinkNext]_vars

(***************************************************************************)
(* Pointer and touch on the stock cells of AllSectorsHeatmap.  Time passes *)
(* in ticks of 250 ms.                                                     *)
(***************************************************************************)

\* the 500 ms of the long press, in ticks
HoldTicks == 2

\* presses in one run, fingers on the screen at once
MaxPresses == 2
MaxFingers == 2

\* where the mouse events happen
Points(viewportWidth) ==
    {<<10, 20>>, <<viewportWidth - 200, 50>>, <<viewportWidth - 5, 50>>}

\* the width of the box the tooltip takes with the content of a stock
ContentWidth(target) == IF target[2] = "a3" THEN 220 ELSE 150

\* where a finger meets a cell: inside its rect
RECURSIVE RectOf(_, _)
RectOf(rects, id) ==
    IF Head(rects).id = id THEN Head(rects) ELSE RectOf(Tail(rects), id)

TouchPoint(target) ==
    LET group == RectOf(svg, target[1])
        rect  == RectOf(group.stocks, target)
    IN  <<rect.x + 1, rect.y + 1>>

Min(set) == CHOOSE x \in set : \A y \in set : x <= y

\* the presses with a finger still down
Down == {k \in 1..Len(presses) : presses[k].down}

GestureInit ==
    /\ NoOthers
    /\ mounted = "AllSectorsHeatmap"
    /\ sectorsData = SampleData
    /\ \E c \in Canvases(mounted) : width = c[1] /\ height = c[2]
    /\ svg = FirstFrame(mounted, sectorsData, width, height)
    /\ rerun = FALSE
    /\ NotPainting
    /\ NotLabelling
    /\ NoLinks
    /\ NoGestures

\* .on('mouseover', ...)
MouseOver ==
    \E target \in StockCells : \E point \in Points(InnerWidth(width)) :
        /\ ~IsMobile(width)
        /\ highlighted' = highlighted \cup {target}
        /\ tooltip' = ShowTooltip(tooltip, point, target, ContentWidth(target),
                                  InnerWidth(width), 0)
        /\ lastEvent' = [type |-> "mouseover", target |-> target, point |-> point,
                         turn |-> 1 - lastEvent.turn]
        /\ UNCHANGED <<touchTimeoutRef, timers, presses, layout, painting, labelling, links, others>>

\* .on('mousemove', ...)
MouseMove ==
    \E target \in StockCells : \E point \in Points(InnerWidth(width)) :
        /\ ~IsMobile(width)
        /\ tooltip' = UpdateTooltipPosition(tooltip, point, InnerWidth(width))
        /\ lastEvent' = [type |-> "mousemove", target |-> target, point |-> point,
                         turn |-> 1 - lastEvent.turn]
        /\ UNCHANGED <<highlighted, touchTimeoutRef, timers, presses>>
        /\ UNCHANGED <<layout, painting, labelling, links, others>>

\* .on('mouseout', ...)
MouseOut ==
    \E target \in StockCells :
        /\ ~IsMobile(width)
        /\ highlighted' = highlighted \ {target}
        /\ tooltip' = HideTooltip(tooltip)
        /\ lastEvent' = [type |-> "mouseout", target |-> target, point |-> lastEvent.point,
                         turn |-> 1 - lastEvent.turn]
        /\ UNCHANGED <<touchTimeoutRef, timers, presses, layout, painting, labelling, links, others>>

\* .on('touchstart', ...): a finger comes down on a cell.  The event handed
\* to the timer's callback carries event.touches, whose first entry is the
\* earliest finger still down
TouchStart ==
    \E target \in StockCells :
        /\ IsMobile(width)
        /\ Len(presses) < MaxPresses
        /\ Cardinality(Down) < MaxFingers
        /\ highlighted' = highlighted \cup {target}
        /\ touchTimeoutRef' = Len(presses) + 1
        /\ timers' = timers \cup {Len(presses) + 1}
        /\ presses' =
              Append([k \in 1..Len(presses) |->
                        IF k \in Down THEN [presses[k] EXCEPT !.alone = FALSE] ELSE presses[k]],
                     [target   |-> target,
                      point    |-> IF Down = {} THEN TouchPoint(target)
                                   ELSE presses[Min(Down)].point,
                      down     |-> TRUE,
                      attached |-> TRUE,
                      held     |-> 0,
                      moved    |-> FALSE,
                      opened   |-> FALSE,
                      late     |-> FALSE,
                      alone    |-> Down = {}])
        /\ UNCHANGED <<tooltip, lastEvent, layout, painting, labelling, links, others>>

\* .on('touchend', ...): the finger of press k is lifted
TouchEnd ==
    \E k \in Down :
        /\ IsMobile(width)
        /\ highlighted' = IF presses[k].attached THEN highlighted \ {presses[k].target}
                          ELSE highlighted
        /\ timers' = IF touchTimeoutRef # 0 THEN ClearTimeout(timers, touchTimeoutRef)
                      ELSE timers
        /\ touchTimeoutRef' = 0
        /\ tooltip' = HideTooltip(tooltip)
        /\ presses' = [presses EXCEPT ![k].down = FALSE, ![k].moved = TRUE]
        /\ UNCHANGED <<lastEvent, layout, painting, labelling, links, others>>

\* .on('touchmove', ...): the finger of press k moves
TouchMove ==
    \E k \in Down :
        /\ IsMobile(width)
        /\ IF touchTimeoutRef # 0
           THEN /\ timers' = ClearTimeout(timers, touchTimeoutRef)
                /\ touchTimeoutRef' = 0
                /\ tooltip' = HideTooltip(tooltip)
           ELSE UNCHANGED <<timers, touchTimeoutRef, tooltip>>
        /\ presses' = [presses EXCEPT ![k].moved = TRUE]
        /\ UNCHANGED <<highlighted, lastEvent, layout, painting, labelling, links, others>>

\* the callback of setTimeout(..., 500) runs: timers of one delay fire in the
\* order they were set
Expire ==
    /\ timers # {}
    /\ presses[Min(timers)].held = HoldTicks
    /\ timers' = timers \ {Min(timers)}
    /\ tooltip' = ShowTooltip(tooltip, presses[Min(timers)].point,
                              presses[Min(timers)].target,
                              ContentWidth(presses[Min(timers)].target),
                              InnerWidth(width), Min(timers))
    /\ presses' = [presses EXCEPT ![Min(timers)].opened = TRUE,
                                  ![Min(timers)].late = presses[Min(timers)].moved]
    /\ UNCHANGED <<highlighted, touchTimeoutRef, lastEvent>>
    /\ UNCHANGED <<layout, painting, labelling, links, others>>

\* 100 ms pass; a timer that is due fires before more time passes
Tick ==
    /\ timers # {}
    /\ \A k \in timers : presses[k].held < HoldTicks
    /\ presses' = [k \in 1..Len(presses) |->
                     IF k \in timers THEN [presses[k] EXCEPT !.held = @ + 1] ELSE presses[k]]
    /\ UNCHANGED <<highlighted, tooltip, touchTimeoutRef, timers, lastEvent>>
    /\ UNCHANGED <<layout, painting, labelling, links, others>>

\* the effect runs again while the cells are in use, once
Rerender == ~rerun /\ Reload

GestureNext ==
    \/ MouseOver \/ MouseMove \/ MouseOut
    \/ TouchStart \/ TouchEnd \/ TouchMove \/ Expire \/ Tick
    \/ Rerender

GestureSpec == GestureInit /\ [][GestureNext]_vars

(***************************************************************************)
(* HomePage: the initial load, the refresh button, the switch of the       *)
(* automatic refresh and its interval.  Time passes in ticks of 20 s; the  *)
(* interval of 60000 ms is RefreshTicks of them.  A call of healthCheck or *)
(* of fetchAllSectorsData settles at any later time, in any order.         *)
(***************************************************************************)
RefreshTicks == 3

\* calls of fetchAllSectorsData, and ticks counted since the mount
MaxLoads == 3
MaxElapsed == 4

InFlight == {k \in 1..Len(loads) : loads[k] = "flight"}

\* calls already made and calls that will follow a pending healthCheck
Committed == Len(loads) + checking

\* the two effects of the mount have run: initializeApp awaits healthCheck,
\* and the interval effect returned at once because autoRefresh is false
PageInit ==
    /\ mounted = "AllSectorsHeatmap"
    /\ sectorsData = <<>>
    /\ width = 0 /\ height = 0
    /\ svg = <<>>
    /\ rerun = FALSE
    /\ NotPainting
    /\ NotLabelling
    /\ NoLinks
    /\ NoGestures
    /\ NoFetching
    /\ NoResolving
    /\ NoPlacing
    /\ autoRefresh = FALSE
    /\ loading = FALSE
    /\ error = FALSE
    /\ isOnline = TRUE
    /\ checking = 1
    /\ loads = <<>>
    /\ shown = 0
    /\ clock = 0
    /\ elapsed = 0
    /\ userActed = FALSE
    /\ autoLoads = 0

\* the refresh button, disabled while loading: handleRefresh awaits
\* checkServerStatus before it loads
ClickRefresh ==
    /\ ~loading
    /\ Committed < MaxLoads
    /\ checking' = checking + 1
    /\ userActed' = TRUE
    /\ UNCHANGED <<autoRefresh, loading, error, isOnline, loads, shown,
                   clock, elapsed, autoLoads>>
    /\ UNCHANGED <<layout, painting, labelling, links, gestures, fetching, resolving, placing>>

\* toggleAutoRefresh and the interval effect after it: the cleanup clears the
\* old interval, and a new one is set when autoRefresh became true
ToggleAutoRefresh ==
    /\ autoRefresh' = ~autoRefresh
    /\ clock' = 0
    /\ userActed' = TRUE
    /\ UNCHANGED <<loading, error, isOnline, checking, loads, shown,
                   elapsed, autoLoads>>
    /\ UNCHANGED <<layout, painting, labelling, links, gestures, fetching, resolving, placing>>

\* healthCheck settles (checkServerStatus never throws), and the awaiting
\* initializeApp or handleRefresh goes on into loadAllSectorsData up to its
\* await
HealthSettles ==
    /\ checking > 0
    /\ \E status \in BOOLEAN : isOnline' = status
    /\ checking' = checking - 1
    /\ loading' = TRUE
    /\ error' = FALSE
    /\ loads' = Append(loads, "flight")
    /\ UNCHANGED <<autoRefresh, shown, clock, elapsed, userActed, autoLoads>>
    /\ UNCHANGED <<layout, painting, labelling, links, gestures, fetching, resolving, placing>>

\* fetchAllSectorsData of call k settles: loadAllSectorsData after its await
LoadSettles ==
    \E k \in InFlight, ok \in BOOLEAN :
        /\ loads' = [loads EXCEPT ![k] = IF ok THEN "ok" ELSE "failed"]
        /\ shown' = IF ok THEN k ELSE shown
        /\ error' = IF ok THEN error ELSE TRUE
        /\ loading' = FALSE
        /\ UNCHANGED <<autoRefresh, isOnline, checking, clock, elapsed,
                       userActed, autoLoads>>
        /\ UNCHANGED <<layout, painting, labelling, links, gestures, fetching, resolving, placing>>

\* 20 s pass; the callback of the interval runs when they complete its 60 s
Elapse ==
    /\ elapsed < MaxElapsed
    /\ elapsed' = elapsed + 1
    /\ IF autoRefresh /\ clock + 1 = RefreshTicks
       THEN /\ Committed < MaxLoads
            /\ clock' = 0
            /\ loading' = TRUE
            /\ error' = FALSE
            /\ loads' = Append(loads, "flight")
            /\ autoLoads' = autoLoads + 1
       ELSE /\ clock' = IF autoRefresh THEN clock + 1 ELSE clock
            /\ UNCHANGED <<loading, error, loads, autoLoads>>
    /\ UNCHANGED <<autoRefresh, isOnline, checking, shown, userActed>>
    /\ UNCHANGED <<layout, painting, labelling, links, gestures, fetching, resolving, placing>>

PageNext ==
    \/ ClickRefresh \/ ToggleAutoRefresh \/ HealthSettles \/ LoadSettles
    \/ Elapse

PageSpec == PageInit /\ [][PageNext]_vars

(***************************************************************************)
(* fetchRealTimeStockData of stockDataService: Sina first, Tencent when    *)
(* that throws, generated data when Tencent gives nothing.  A line of a    *)
(* response body is the code it quotes and the number of fields in its     *)
(* quotes; 0 fields stands for a line the pattern does not match (a blank  *)
(* line, other text, or empty quotes).                                     *)
(***************************************************************************)
SinaMinFields == 32
TencentMinFields == 10

\* a completion of an async call: a value, or an exception thrown
Returns(value) == [threw |-> FALSE, null |-> FALSE, stocks |-> value]
ReturnsNull == [threw |-> FALSE, null |-> TRUE, stocks |-> <<>>]
Throws == [threw |-> TRUE, null |-> FALSE, stocks |-> <<>>]

RECURSIVE ParseLines(_, _, _)
ParseLines(lines, minFields, source) ==
    IF lines = <<>> THEN <<>>
    ELSE LET line == Head(lines)
             rest == ParseLines(Tail(lines), minFields, source)
         IN  IF line.fields = 0 \/ line.fields < minFields
             THEN rest
             ELSE <<[code |-> line.code, source |-> source]>> \o rest

\* the try block of fetchRealTimeStockData after its await
PrimaryTry(answer) ==
    IF answer.failed THEN Throws
    ELSE Returns(ParseLines(answer.lines, SinaMinFields, "sina"))

FetchFromBackupAPIUncaught(answer) ==
    IF answer.failed THEN Throws
    ELSE LET stocks == ParseLines(answer.lines, TencentMinFields, "tencent")
         IN  IF Len(stocks) > 0 THEN Returns(stocks) ELSE ReturnsNull

FetchFromBackupAPI(answer) ==
    IF answer.failed THEN ReturnsNull
    ELSE LET stocks == ParseLines(answer.lines, TencentMinFields, "tencent")
         IN  IF Len(stocks) > 0 THEN Returns(stocks) ELSE ReturnsNull

GenerateFallbackData(list) ==
    [i \in 1..Len(list) |-> [code |-> list[i], source |-> "fallback"]]

\* the catch block of fetchRealTimeStockData after its await
UsesBackup(backupData) == ~backupData.null /\ Len(backupData.stocks) > 0

\* the stock codes asked for, the lines of a body
MaxCodes == 2
MaxLines == 2
StockCodes == {"sh600000", "sz000001"}
FieldCounts == {0, TencentMinFields - 1, TencentMinFields,
                SinaMinFields - 1, SinaMinFields}
CodeLists == UNION {[1..n -> StockCodes] : n \in 0..MaxCodes}
Bodies ==
    UNION {[1..n -> [code : StockCodes, fields : FieldCounts]] : n \in 0..MaxLines}
Answers == {[failed |-> TRUE, lines |-> <<>>]}
               \cup {[failed |-> FALSE, lines |-> b] : b \in Bodies}

\* fetchRealTimeStockData(codes) up to its first await
FetchInit ==
    /\ mounted = "AllSectorsHeatmap"
    /\ sectorsData = <<>>
    /\ width = 0 /\ height = 0
    /\ svg = <<>>
    /\ rerun = FALSE
    /\ NotPainting
    /\ NotLabelling
    /\ NoLinks
    /\ NoGestures
    /\ NoPage
    /\ NoResolving
    /\ NoPlacing
    /\ stockCodes \in CodeLists
    /\ pc = "primary"
    /\ asked = <<"sina">>
    /\ primary = NoAnswer
    /\ backup = NoAnswer
    /\ generated = FALSE
    /\ result = <<>>

\* the request to Sina settles: the rest of the try block, or the catch block
\* up to its await
PrimarySettles ==
    /\ pc = "primary"
    /\ \E answer \in Answers :
        /\ primary' = answer
        /\ LET done == PrimaryTry(answer)
           IN  IF done.threw
               THEN /\ pc' = "backup"
                    /\ asked' = Append(asked, "tencent")
                    /\ UNCHANGED result
               ELSE /\ pc' = "returned"
                    /\ result' = done.stocks
                    /\ UNCHANGED asked
    /\ UNCHANGED <<stockCodes, backup, generated>>
    /\ UNCHANGED <<layout, painting, labelling, links, gestures, page, resolving, placing>>

\* the request to Tencent settles: the rest of fetchFromBackupAPI and of the
\* catch block
BackupSettles ==
    /\ pc = "backup"
    /\ \E answer \in Answers :
        /\ backup' = answer
        /\ LET backupData == FetchFromBackupAPI(answer)
           IN  IF backupData.threw
               THEN /\ pc' = "rejected"
                    /\ UNCHANGED <<generated, result>>
               ELSE /\ pc' = "returned"
                    /\ generated' = ~UsesBackup(backupData)
                    /\ result' = IF UsesBackup(backupData)
                                 THEN backupData.stocks
                                 ELSE GenerateFallbackData(stockCodes)
    /\ UNCHANGED <<stockCodes, asked, primary>>
    /\ UNCHANGED <<layout, painting, labelling, links, gestures, page, resolving, placing>>

FetchNext == PrimarySettles \/ BackupSettles

FetchSpec == FetchInit /\ [][FetchNext]_vars

(***************************************************************************)
(* The two places that build the xueqiu url of a stock code: the route     *)
(* GET /api/stocks/xueqiu-link/:stockCode and the catch block of           *)
(* StockHeatmap's handleStockDoubleClick.                                  *)
(***************************************************************************)
\* six-digit codes: every first and second digit, one serial number
CodeDigits == {"0", "1", "2", "3", "4", "5", "6", "7", "8", "9"}
SixDigitCodes == {<<a, b, "0", "0", "0", "1">> : a \in CodeDigits, b \in CodeDigits}

UrlInit ==
    /\ mounted = "StockHeatmap"
    /\ sectorsData = <<>>
    /\ width = 0 /\ height = 0
    /\ svg = <<>>
    /\ rerun = FALSE
    /\ NotPainting
    /\ NotLabelling
    /\ NoLinks
    /\ NoGestures
    /\ NoPage
    /\ NoFetching
    /\ NoPlacing
    /\ stockCode \in SixDigitCodes
    /\ url = <<>>
    /\ fallbackUrl = <<>>

\* the route answers a request for the code
RouteAnswers ==
    /\ url = <<>>
    /\ url' = XueqiuLink(stockCode)
    /\ UNCHANGED <<stockCode, fallbackUrl>>
    /\ UNCHANGED <<layout, painting, labelling, links, gestures, page, fetching, placing>>

\* the catch block of handleStockDoubleClick builds its url for the code
BuildsFallback ==
    /\ fallbackUrl = <<>>
    /\ fallbackUrl' = FallbackUrl(stockCode)
    /\ UNCHANGED <<stockCode, url>>
    /\ UNCHANGED <<layout, painting, labelling, links, gestures, page, fetching, placing>>

UrlNext == RouteAnswers \/ BuildsFallback

UrlSpec == UrlInit /\ [][UrlNext]_vars

(***************************************************************************)
(* updateTooltipPosition for a pointer anywhere in the viewport and a      *)
(* displayed tooltip of any size up to that of the viewport.               *)
(***************************************************************************)
\* window.innerWidth and window.innerHeight: a phone and a desktop window
Viewports == {<<360, 640>>, <<1280, 720>>}

\* clientX or clientY of an event inside a viewport n pixels long: the two
\* ends, the places around the offsets 15 and 50, and three in between
Coordinates(n) == {0, 14, 49, 50, n \div 4, n \div 2, n - (n \div 4), n - 16, n - 1}

\* width or height of the tooltip's box in a viewport n pixels long
BoxSizes(n) == {40, 150, 220, n} \cap 1..n

PlaceInit ==
    /\ mounted = "AllSectorsHeatmap"
    /\ sectorsData = <<>>
    /\ width = 0 /\ height = 0
    /\ svg = <<>>
    /\ rerun = FALSE
    /\ NotPainting
    /\ NotLabelling
    /\ NoLinks
    /\ NoGestures
    /\ NoPage
    /\ NoFetching
    /\ NoResolving
    /\ viewport \in Viewports
    /\ pointer \in Coordinates(viewport[1]) \X Coordinates(viewport[2])
    /\ box \in BoxSizes(viewport[1]) \X BoxSizes(viewport[2])
    /\ position = NoPosition

\* a mouse or touch event at the pointer while the tooltip is displayed
PlaceTooltip ==
    /\ ~position.set
    /\ LET tip == UpdateTooltipPosition(
                      [HiddenTooltip EXCEPT !.display = "block", !.w = box[1]],
                      pointer, viewport[1])
       IN  position' = [set |-> TRUE, left |-> tip.left, top |-> tip.top]
    /\ UNCHANGED <<viewport, pointer, box>>
    /\ UNCHANGED <<layout, painting, labelling, links, gestures,
                   page, fetching, resolving>>

PlaceNext == PlaceTooltip

PlaceSpec == PlaceInit /\ [][PlaceNext]_vars

(***************************************************************************)
(* What is on screen: rectangles <<x, y, width, height>> in pixels.        *)
(***************************************************************************)
AllSectors == mounted = "AllSectorsHeatmap"

\* the lists of sibling rectangles of the <svg>: the sectors, and the stocks
\* of each sector (AllSectorsHeatmap); the stocks (StockHeatmap)
SiblingLists ==
    IF AllSectors THEN {svg} \cup {svg[i].stocks : i \in 1..Len(svg)} ELSE {svg}

Area(c) == c.width * c.height

\* the two rectangles share a region of positive area
Overlap(a, b) ==
    /\ a.width > 0 /\ a.height > 0 /\ b.width > 0 /\ b.height > 0
    /\ a.x < b.x + b.width /\ b.x < a.x + a.width
    /\ a.y < b.y + b.height /\ b.y < a.y + a.height

\* C1: no two sibling rectangles produced for the same parent (the sectors of
\* the canvas, the stocks of one sector) overlap in positive area
C1_NoOverlap ==
    \A list \in SiblingLists :
        \A i, j \in 1..Len(list) : i < j => ~Overlap(list[i], list[j])

\* two sectors of positive area on screen, one of them with two stocks of
\* positive area
C1_Witness ==
    /\ AllSectors
    /\ Len(svg) = 2
    /\ Area(svg[1]) > 0 /\ Area(svg[2]) > 0
    /\ \E i \in 1..Len(svg) :
          \E j, k \in 1..Len(svg[i].stocks) :
              j < k /\ Area(svg[i].stocks[j]) > 0 /\ Area(svg[i].stocks[k]) > 0

(***************************************************************************)
(* Tiling.  A parent is described by the values of its (sorted) children,  *)
(* its own value, its size and paddings; cells are its children on screen, *)
(* drawn with the offset <<ox, oy>>.                                       *)
(***************************************************************************)
RWidth(t)  == RSub(t.x1, t.x0)
RHeight(t) == RSub(t.y1, t.y0)

\* the tile t lies inside the bounds b
TileInside(t, b) ==
    /\ RLeq(b.x0, t.x0) /\ RLeq(t.x0, t.x1) /\ RLeq(t.x1, b.x1)
    /\ RLeq(b.y0, t.y0) /\ RLeq(t.y0, t.y1) /\ RLeq(t.y1, b.y1)

\* the tiles t and u share no region of positive area
TilesDisjoint(t, u) ==
    \/ RLeq(t.x1, u.x0) \/ RLeq(u.x1, t.x0)
    \/ RLeq(t.y1, u.y0) \/ RLeq(u.y1, t.y0)
    \/ t.x0 = t.x1 \/ t.y0 = t.y1 \/ u.x0 = u.x1 \/ u.y0 = u.y1

\* the denominators of the widths and heights of the tiles other than tile i
RECURSIVE DenominatorsExcept(_, _, _)
DenominatorsExcept(ts, i, j) ==
    IF j > Len(ts) THEN <<>>
    ELSE (IF j = i THEN <<>> ELSE <<RWidth(ts[j])[2], RHeight(ts[j])[2]>>)
            \o DenominatorsExcept(ts, i, j + 1)

\* the sum of the areas of the tiles i.., times every denominator in sight
RECURSIVE ScaledAreas(_, _, _)
ScaledAreas(ts, b, i) ==
    IF i > Len(ts) THEN <<>>
    ELSE BAdd(BProd(<<RWidth(ts[i])[1], RHeight(ts[i])[1], RWidth(b)[2], RHeight(b)[2]>>
                      \o DenominatorsExcept(ts, i, 1)),
              ScaledAreas(ts, b, i + 1))

\* the area of the bounds b, scaled likewise
ScaledBounds(ts, b) ==
    BProd(<<RWidth(b)[1], RHeight(b)[1]>> \o DenominatorsExcept(ts, 0, 1))

\* the tiles ts tile the bounds b: inside, disjoint, and of the same area
ExactTiling(ts, b) ==
    /\ \A i \in 1..Len(ts) : TileInside(ts[i], b)
    /\ \A i, j \in 1..Len(ts) : i < j => TilesDisjoint(ts[i], ts[j])
    /\ BCmp(BTrim(ScaledAreas(ts, b, 1)), BTrim(ScaledBounds(ts, b))) = 0

\* the integer n is the rational a rounded, up or down at a half
RoundingOf(n, a) ==
    RLeq(RSub(RInt(n), <<1, 2>>), a) /\ RLeq(a, RAdd(RInt(n), <<1, 2>>))

\* the cell is the tile t shrunk by p on each side and rounded to whole pixels
ShrunkTile(cell, t, p, ox, oy) ==
    LET it == Inset(t, p, p)
    IN  /\ RoundingOf(cell.x - ox, it.x0)
        /\ RoundingOf(cell.x - ox + cell.width, it.x1)
        /\ RoundingOf(cell.y - oy, it.y0)
        /\ RoundingOf(cell.y - oy + cell.height, it.y1)

TiledParent(vals, value, w, h, pInner, pOuter, cells, ox, oy) ==
    LET ts == Tiles(vals, value, RInt(w), RInt(h), pInner, pOuter)
    IN  /\ Len(cells) = Len(vals)
        /\ ExactTiling(ts, TileBounds(RInt(w), RInt(h), pInner, pOuter))
        /\ \A i \in 1..Len(vals) : ShrunkTile(cells[i], ts[i], RHalf(pInner), ox, oy)

\* what is left of a sector on screen for its stocks
ResidualWidth(g)  == g.width - SectorInset(IsMobile(width))
ResidualHeight(g) == g.height - TitleHeight(IsMobile(width))

\* the svg shows the current props of AllSectorsHeatmap / of StockHeatmap
ShowsSectors == AllSectors /\ sectorsData # <<>>
ShowsStocks  == ~AllSectors /\ StocksProp(sectorsData) # <<>>

RECURSIVE SumAreas(_)
SumAreas(cells) == IF cells = <<>> THEN 0 ELSE Area(Head(cells)) + SumAreas(Tail(cells))

\* what rounding to whole pixels can add to or take from the areas of the
\* cells: each edge moves by at most half a pixel
RECURSIVE RoundingTolerance(_)
RoundingTolerance(cells) ==
    IF cells = <<>> THEN 0
    ELSE Head(cells).width + Head(cells).height + 1 + RoundingTolerance(Tail(cells))

\* the area of a w x h parent inside its padding (twice the padding is pad2)
PaddedInterior(w, h, pad2) == (w - pad2) * (h - pad2)

\* the cells fill the padded interior of a w x h parent up to rounding
FillsInterior(cells, w, h, pad2) ==
    (w - pad2 > 0 /\ h - pad2 > 0) =>
        /\ SumAreas(cells) - PaddedInterior(w, h, pad2) <= RoundingTolerance(cells)
        /\ PaddedInterior(w, h, pad2) - SumAreas(cells) <= RoundingTolerance(cells)

SameRatio(t, v, u, w) ==
    BCmp(BTrim(BProd(<<RWidth(t)[1], RHeight(t)[1], RWidth(u)[2], RHeight(u)[2], w>>)),
         BTrim(BProd(<<RWidth(u)[1], RHeight(u)[1], RWidth(t)[2], RHeight(t)[2], v>>))) = 0

\* the tiles of the children are in the ratio of the children's values
ProportionalTiles(children, value, w, h, pInner, pOuter) ==
    LET ts == Tiles(NodeValues(children), value, RInt(w), RInt(h), pInner, pOuter)
    IN  \A i, j \in 1..Len(children) :
            i < j => SameRatio(ts[i], children[i].value, ts[j], children[j].value)

\* the areas of the cells are in the ratio of the children's values, once
\* every edge of a cell may have moved by half a pixel
ProportionalCells(cells, children) ==
    \A i, j \in 1..Len(cells) :
        (Area(cells[i]) - RoundingTolerance(<<cells[i]>>)) * children[j].value
            <= (Area(cells[j]) + RoundingTolerance(<<cells[j]>>)) * children[i].value

\* the stocks of weight 500, 300 and 200
Banking ==
    <<[code |-> "s1", marketCap |-> 500], [code |-> "s2", marketCap |-> 300],
      [code |-> "s3", marketCap |-> 200]>>

\* calculateTreemapLayout for them in 400 x 300 with no padding
BankingLayout == CalculateTreemapLayout(TransformStocksToTreemap(Banking), 400, 300, 0, 0)

\* the sector nodes in the order of the g.sector-group elements, and what
\* sectorTreemap lays out for the i-th of them
SectorsShown == RootNode(sectorsData).children
StocksShown(i) == SectorRoot(SectorsShown[i])

\* the sector's inner layout is not skipped
LaidOut(g) == g.width > 0 /\ ResidualHeight(g) > 0

CodesOf(data, sid) ==
    UNION {{data[k].stocks[j].code : j \in 1..Len(data[k].stocks)} :
             k \in {k \in 1..Len(data) : data[k].id = sid}}

\* C5 as stated: after every change of the records or of the canvas, the
\* change to an empty record set included, the svg holds the cells of the
\* current records only
C5_OnlyCurrentCells ==
    /\ AllSectors =>
          \A i \in 1..Len(svg) :
              /\ HasSector(sectorsData, svg[i].id)
              /\ \A j \in 1..Len(svg[i].stocks) :
                    svg[i].stocks[j].id[2] \in CodesOf(sectorsData, svg[i].id)
    /\ ~AllSectors =>
          \A i \in 1..Len(svg) : svg[i].id \in CodesOf(sectorsData, SelectedSector)

\* C6 as stated: a sector whose residual rectangle (less the title above and
\* the inset at the sides) has no width or no height gets no stock rectangle
C6_SkippedWithoutResidual ==
    ShowsSectors =>
        \A i \in 1..Len(svg) :
            (ResidualWidth(svg[i]) <= 0 \/ ResidualHeight(svg[i]) <= 0) => svg[i].stocks = <<>>

\* the market caps of all the stocks of the record set
RECURSIVE TotalMarketCap(_)
TotalMarketCap(data) ==
    IF data = <<>> THEN 0 ELSE SumMarketCap(Head(data).stocks) + TotalMarketCap(Tail(data))

\* C7 as stated: the weight the layout uses for a sector is the sum of the
\* market caps of its stocks, and the weight of the root the sum of all of them
C7_WeightIsSumOfChildren ==
    /\ ShowsSectors =>
          /\ RootNode(sectorsData).value = TotalMarketCap(sectorsData)
          /\ \A i \in 1..Len(sectorsData) :
                SectorNode(sectorsData[i]).value = SumMarketCap(sectorsData[i].stocks)
    /\ ShowsStocks =>
          TreemapRoot(TransformStocksToTreemap(StocksProp(sectorsData))).value
              = SumMarketCap(StocksProp(sectorsData))

(***************************************************************************)
(* Order of the input.                                                     *)
(***************************************************************************)

\* the sequence in every order
Perms(seq) ==
    {[i \in 1..Len(seq) |-> seq[f[i]]] :
        f \in {g \in [1..Len(seq) -> 1..Len(seq)] :
                 \A a, b \in 1..Len(seq) : a # b => g[a] # g[b]}}

\* the record set with the stocks of every sector in every order
RECURSIVE StockReorderings(_)
StockReorderings(data) ==
    IF data = <<>> THEN {<<>>}
    ELSE {<<[Head(data) EXCEPT !.stocks = p]>> \o rest :
             p \in Perms(Head(data).stocks), rest \in StockReorderings(Tail(data))}

\* and with the sectors in every order as well
Reorderings(data) == UNION {Perms(d) : d \in StockReorderings(data)}

DistinctValues(nodes) ==
    \A i, j \in 1..Len(nodes) : i < j => nodes[i].value # nodes[j].value

\* no two sectors and no two stocks of a sector weigh the same
DistinctWeights(data) ==
    /\ DistinctValues(RootNode(data).children)
    /\ \A i \in 1..Len(data) : DistinctValues(SectorNode(data[i]).children)

\* the stocks of the sector sid in the record set
StocksOf(data, sid) == data[CHOOSE k \in 1..Len(data) : data[k].id = sid].stocks

\* the market cap of the stock code among the stocks
CapOf(stocks, code) ==
    stocks[CHOOSE j \in 1..Len(stocks) : stocks[j].code = code].marketCap

\* C8: the sectors are drawn in descending order of weight and the stocks of
\* every laid-out sector in descending order of market cap, and when no two
\* weights are equal every order of the input records gives every sector and
\* every stock the same rectangle
C8_SortedBeforePartition ==
    /\ ShowsSectors =>
          /\ \A i, j \in 1..Len(svg) :
                i < j => SumMarketCap(StocksOf(sectorsData, svg[i].id))
                            >= SumMarketCap(StocksOf(sectorsData, svg[j].id))
          /\ \A i \in 1..Len(svg) : \A j, k \in 1..Len(svg[i].stocks) :
                j < k => CapOf(StocksOf(sectorsData, svg[i].id), svg[i].stocks[j].id[2])
                            >= CapOf(StocksOf(sectorsData, svg[i].id), svg[i].stocks[k].id[2])
          /\ DistinctWeights(sectorsData) =>
                \A d \in Reorderings(sectorsData) : SectorGroups(d, width, height) = svg
    /\ ShowsStocks =>
          /\ \A j, k \in 1..Len(svg) :
                j < k => CapOf(StocksProp(sectorsData), svg[j].id)
                            >= CapOf(StocksProp(sectorsData), svg[k].id)
          /\ DistinctValues(TransformStocksToTreemap(StocksProp(sectorsData)).children) =>
                \A p \in Perms(StocksProp(sectorsData)) :
                    RenderStocks(<<>>, p, width, height) = svg

\* records that arrive in ascending order: the lighter sector first, and in
\* it the lighter stock first, all weights different
C8_Witness ==
    /\ ShowsSectors
    /\ Len(sectorsData) = 2
    /\ DistinctWeights(sectorsData)
    /\ SumMarketCap(sectorsData[1].stocks) < SumMarketCap(sectorsData[2].stocks)
    /\ Len(sectorsData[1].stocks) >= 2
    /\ sectorsData[1].stocks[1].marketCap < sectorsData[1].stocks[2].marketCap
    /\ svg[1].id = sectorsData[2].id

(***************************************************************************)
(* Weights of zero.                                                        *)
(***************************************************************************)
AllZero(nodes) == \A i \in 1..Len(nodes) : nodes[i].value = 0

\* C9 (amended): when every item of a parent weighs zero, every item gets a
\* rectangle of zero area: the sectors of the canvas, whose stocks are then
\* not drawn at all, and the stocks of StockHeatmap; no equal shares are
\* handed out
C9_AllZeroGetNoArea ==
    /\ ShowsSectors =>
          /\ AllZero(SectorsShown) => \A i \in 1..Len(svg) : Area(svg[i]) = 0
          /\ \A i \in 1..Len(svg) : AllZero(StocksShown(i).children) => svg[i].stocks = <<>>
    /\ ShowsStocks =>
          (AllZero(TransformStocksToTreemap(StocksProp(sectorsData)).children)
              => \A i \in 1..Len(svg) : Area(svg[i]) = 0)

\* two sectors on the canvas, every stock of them with market cap 0
C9_Witness ==
    /\ ShowsSectors
    /\ Len(svg) = 2
    /\ AllZero(SectorsShown)
    /\ width > 0 /\ height > 0

\* C9 as stated: items that all weigh zero share the parent equally, so each
\* of them has a rectangle of positive area
C9_AllZeroShareEqually ==
    /\ (ShowsSectors /\ AllZero(SectorsShown)) => \A i \in 1..Len(svg) : Area(svg[i]) > 0
    /\ (ShowsStocks /\ AllZero(TransformStocksToTreemap(StocksProp(sectorsData)).children))
          => \A i \in 1..Len(svg) : Area(svg[i]) > 0

(***************************************************************************)
(* One rectangle for every stock.                                          *)
(***************************************************************************)

\* every one of the stocks has exactly one of the cells, a cell of zero area
\* if its market cap is zero, and there are no other cells
OneCellPerStock(cells, stocks, codes) ==
    /\ Len(cells) = Len(stocks)
    /\ \A j \in 1..Len(stocks) :
          /\ Cardinality({c \in 1..Len(cells) : codes[c] = stocks[j].code}) = 1
          /\ stocks[j].marketCap = 0 =>
                \A c \in 1..Len(cells) : codes[c] = stocks[j].code => Area(cells[c]) = 0

\* C10: every stock of a laid-out sector has exactly one rectangle, a stock
\* of weight zero one of zero area, and the number of rectangles is the number
\* of stocks
C10_OneRectanglePerStock ==
    /\ ShowsSectors =>
          \A i \in 1..Len(svg) :
              LaidOut(svg[i]) =>
                  OneCellPerStock(svg[i].stocks, StocksOf(sectorsData, svg[i].id),
                                  [c \in 1..Len(svg[i].stocks) |-> svg[i].stocks[c].id[2]])
    /\ ShowsStocks =>
          OneCellPerStock(svg, StocksProp(sectorsData), [c \in 1..Len(svg) |-> svg[c].id])

\* a laid-out sector with a stock of market cap 0 next to a stock that has a
\* rectangle of positive area
C10_Witness ==
    /\ ShowsSectors
    /\ \E i \in 1..Len(svg) :
          /\ LaidOut(svg[i])
          /\ \E j \in 1..Len(StocksOf(sectorsData, svg[i].id)) :
                StocksOf(sectorsData, svg[i].id)[j].marketCap = 0
          /\ \E c \in 1..Len(svg[i].stocks) : Area(svg[i].stocks[c]) > 0

(***************************************************************************)
(* Colour of a cell.                                                       *)
(***************************************************************************)
Gray        == "#6B7280"
RedLadder   == <<"#FEE2E2", "#FCA5A5", "#F87171", "#EF4444", "#DC2626">>
GreenLadder == <<"#D1FAE5", "#6EE7B7", "#34D399", "#10B981", "#059669">>

\* the colour function of the mounted component
ColourOf(change) ==
    IF mounted = "AllSectorsHeatmap" THEN GetColor(change) ELSE GetColorByChangePercent(change)

\* C11: the token is the neutral gray exactly for the changes smaller in
\* magnitude than 0.01 percent, of either sign, and so for 0.005, -0.005 and
\* -0.003; every other change gets a token that is not gray
C11_NeutralBand ==
    fill # NoToken =>
        /\ (fill = Gray) <=> (-10 < changePercent /\ changePercent < 10)
        /\ changePercent \in {5, -5, -3} => fill = Gray

\* the colour function has answered gray for -0.003 percent
C11_Witness == changePercent = -3 /\ fill = Gray

\* the step of a change among the thresholds 1, 2, 3, 4 percent
StepOfChange(magnitude) ==
    1 + Cardinality({t \in {1000, 2000, 3000, 4000} : t <= magnitude})

\* the step of a token in its ladder (0 for gray)
StepOfToken(token) ==
    IF \E k \in 1..5 : RedLadder[k] = token THEN CHOOSE k \in 1..5 : RedLadder[k] = token
    ELSE IF \E k \in 1..5 : GreenLadder[k] = token
    THEN CHOOSE k \in 1..5 : GreenLadder[k] = token
    ELSE 0

\* C12: outside the neutral band a rise gets the red token and a fall the
\* green token of the step of its magnitude among 1, 2, 3, 4 percent; from 4
\* percent on this is the deepest token (5.2 and -4.5), below 1 percent the
\* palest, and the step of a change is never below the step of the change
\* next to it on the side of zero
C12_ColourLadder ==
    (fill # NoToken /\ (changePercent >= 10 \/ changePercent <= -10)) =>
        /\ changePercent > 0 => fill = RedLadder[StepOfChange(changePercent)]
        /\ changePercent < 0 => fill = GreenLadder[StepOfChange(-changePercent)]
        /\ changePercent >= 4000 => fill = "#DC2626"
        /\ changePercent <= -4000 => fill = "#059669"
        /\ (changePercent < 1000 /\ changePercent > -1000) => fill \in {"#FEE2E2", "#D1FAE5"}
        /\ changePercent > 10 => StepOfToken(ColourOf(changePercent - 1)) <= StepOfToken(fill)
        /\ changePercent < -10 => StepOfToken(ColourOf(changePercent + 1)) <= StepOfToken(fill)

\* the colour function has answered the deepest green for -4.5 percent
C12_Witness == changePercent = -4500 /\ fill = "#059669"

(***************************************************************************)
(* Labels of a cell.                                                       *)
(***************************************************************************)

\* the cell is too small for the name label: 30x15, on mobile 20x12
TooSmallForName ==
    IF leaf.mobile THEN leaf.w < 20 \/ leaf.h < 12 ELSE leaf.w < 30 \/ leaf.h < 15

\* the cell is too small for the percent label: 40x25, on mobile 25x18
TooSmallForPercent ==
    IF leaf.mobile THEN leaf.w < 25 \/ leaf.h < 18 ELSE leaf.w < 40 \/ leaf.h < 25

\* C13: a cell narrower or lower than the minimum of a label kind has the
\* empty string for that label, whatever its name and its change
C13_LabelGate ==
    label.asked =>
        /\ TooSmallForName => label.name = <<>>
        /\ TooSmallForPercent => label.percent = <<>>

\* a named cell of 20x10 on the desktop, without name label
C13_Witness ==
    /\ label.asked /\ ~leaf.mobile
    /\ leaf.w = 20 /\ leaf.h = 10
    /\ leaf.name # <<>>
    /\ label.name = <<>>

\* C14: a cell that shows a percent label is large enough for the name label
\* in its profile, and a named cell of 100x40 shows both labels
C14_PercentGateStricter ==
    label.asked =>
        /\ label.percent # <<>> => ~TooSmallForName
        /\ (leaf.w = 100 /\ leaf.h = 40 /\ leaf.name # <<>>) =>
              (label.name # <<>> /\ label.percent # <<>>)

\* a named cell of 100x40 with both labels
C14_Witness ==
    /\ label.asked
    /\ leaf.w = 100 /\ leaf.h = 40
    /\ label.name # <<>> /\ label.percent # <<>>

\* clamp(floor(width / charWidth), 2, profileMax): 12 px and 8 characters, on
\* mobile 8 px and 6 characters
ClampedChars ==
    LET fit   == leaf.w \div (IF leaf.mobile THEN 8 ELSE 12)
        limit == IF leaf.mobile THEN 6 ELSE 8
    IN  IF fit < 2 THEN 2 ELSE IF fit > limit THEN limit ELSE fit

FirstChars(name, k) == [i \in 1..k |-> name[i]]
LastChars(name, k)  == [i \in 1..k |-> name[Len(name) - k + i]]
HasST(name) == \E i \in 1..(Len(name) - 1) : name[i] = "S" /\ name[i + 1] = "T"
AllDigits(name) ==
    \A i \in 1..Len(name) : name[i] \in {"0", "1", "2", "3", "4", "5", "6", "7", "8", "9"}

\* C15 (amended): for a cell that passes the name gate a name of at most
\* maxChars characters is shown as it is; a longer name containing ST is cut
\* to its first maxChars characters; else a name of digits only is cut to its
\* last four digits if it is longer than four and shown whole if it is not;
\* else the name is cut to its first maxChars-1 characters and an ellipsis
C15_NameTruncation ==
    (label.asked /\ ~TooSmallForName) =>
        label.name =
            IF Len(leaf.name) <= ClampedChars THEN leaf.name
            ELSE IF HasST(leaf.name) THEN FirstChars(leaf.name, ClampedChars)
            ELSE IF AllDigits(leaf.name)
            THEN IF Len(leaf.name) > 4 THEN LastChars(leaf.name, 4) ELSE leaf.name
            ELSE FirstChars(leaf.name, ClampedChars - 1) \o <<"u2026">>

\* a code of four digits in a cell with room for fewer, shown whole
C15_Witness ==
    /\ label.asked /\ ~TooSmallForName
    /\ leaf.name = <<"1", "2", "3", "4">>
    /\ ClampedChars < 4
    /\ label.name = leaf.name

\* C15 as stated: a name of digits that does not fit and is not longer than
\* four falls under the last rule, cut with an ellipsis
C15_TruncationAsStated ==
    (label.asked /\ ~TooSmallForName) =>
        label.name =
            IF Len(leaf.name) <= ClampedChars THEN leaf.name
            ELSE IF HasST(leaf.name) THEN FirstChars(leaf.name, ClampedChars)
            ELSE IF AllDigits(leaf.name) /\ Len(leaf.name) > 4 THEN LastChars(leaf.name, 4)
            ELSE FirstChars(leaf.name, ClampedChars - 1) \o <<"u2026">>

\* C28: for every name and every cell passing the name gate, the name label
\* rendered has at most maxChars characters, maxChars being
\* clamp(floor(width / charWidth), 2, profileMax).
C28_NameFitsBudget ==
    (label.asked /\ ~TooSmallForName) => Len(label.name) <= ClampedChars

(***************************************************************************)
(* Double clicks.                                                          *)
(***************************************************************************)

\* C16: every double click on a stock cell that is no longer waiting for the
\* resolver has opened exactly one URL, the resolver's or the fallback built
\* from the code, in every heat map
C16_OneUrlPerActivation ==
    /\ Len(requests) + Len(opened) = activations
    /\ \A k \in 1..Len(opened) :
          \E code \in {"a1", "a2", "a3", "b1"} :
              opened[k] \in {XueqiuLink(Ticker(code)), FallbackUrl(Ticker(code))}

(***************************************************************************)
(* Touch and pointer.                                                      *)
(***************************************************************************)

\* C17: for a press with no other finger on the screen during it: while it
\* has seen no touchend and no touchmove its timer runs until 500 ms have
\* passed and then opens the tooltip on its cell, never earlier; once a
\* touchend or a touchmove came before the timer fired the timer is gone and
\* the tooltip does not open for that press
C17_LongPress ==
    \A k \in 1..Len(presses) :
        presses[k].alone =>
            /\ (~presses[k].moved /\ ~presses[k].opened) => k \in timers
            /\ presses[k].opened => presses[k].held = HoldTicks
            /\ (~presses[k].moved /\ presses[k].opened) =>
                  /\ tooltip.display = "block"
                  /\ tooltip.press = k
                  /\ tooltip.content = presses[k].target
            /\ (presses[k].moved /\ ~presses[k].opened) => k \notin timers
            /\ ~presses[k].late

\* one press was held for 500 ms and has the tooltip open, another one was
\* lifted before and has opened nothing
C17_Witness ==
    /\ Len(presses) = 2
    /\ presses[1].alone /\ presses[1].moved /\ ~presses[1].opened
    /\ presses[1].held < HoldTicks
    /\ presses[2].alone /\ ~presses[2].moved /\ presses[2].opened
    /\ tooltip.display = "block"

\* C18: once a press has seen its touchend or a touchmove, its timer is not
\* pending any more and does not open the tooltip later, whatever other
\* touches and re-renders come in between
C18_NoDanglingTimer ==
    \A k \in 1..Len(presses) :
        presses[k].moved => (k \notin timers /\ ~presses[k].late)

\* the place of the tooltip for an event at the point, the box boxW wide
PlacedAt(point, boxW) ==
    /\ tooltip.left = IF point[1] + 15 + boxW > InnerWidth(width)
                      THEN point[1] - boxW - 15 ELSE point[1] + 15
    /\ tooltip.top = IF point[2] - 50 < 0 THEN point[2] + 10 ELSE point[2] - 50

\* C19: on the desktop a mouseover gives its cell the dark border and shows
\* the tooltip with the cell's content, a mousemove moves the tooltip to the
\* pointer and changes nothing else, a mouseout hides the tooltip and gives
\* its cell the default border; the tooltip is displayed only while the last
\* mouse event on a cell is a mouseover or a mousemove
C19_HoverLifecycle ==
    /\ []((~IsMobile(width) /\ tooltip.display = "block")
            => lastEvent.type \in {"mouseover", "mousemove"})
    /\ [][lastEvent' # lastEvent =>
            /\ lastEvent'.type = "mouseover" =>
                  /\ lastEvent'.target \in highlighted'
                  /\ tooltip'.display = "block"
                  /\ tooltip'.content = lastEvent'.target
            /\ lastEvent'.type = "mousemove" =>
                  /\ tooltip'.left \in {lastEvent'.point[1] + 15,
                                        lastEvent'.point[1] - 15 - tooltip.w,
                                        lastEvent'.point[1] - 15}
                  /\ tooltip'.top \in {lastEvent'.point[2] - 50, lastEvent'.point[2] + 10}
                  /\ tooltip'.display = tooltip.display
                  /\ highlighted' = highlighted
            /\ lastEvent'.type = "mouseout" =>
                  /\ lastEvent'.target \notin highlighted'
                  /\ tooltip'.display = "none"]_vars

\* the pointer has gone over a cell, moved, left it and come over another
\* cell: that one has the dark border and the tooltip, the first one has not
C19_Witness ==
    /\ lastEvent.type = "mouseover"
    /\ lastEvent.turn = 0
    /\ highlighted = {lastEvent.target}
    /\ tooltip.display = "block"
    /\ rerun

\* C20: after a mouse event at (x, y) the tooltip's left edge is x+15, or
\* x-w-15 when x+15+w is beyond the viewport's width, and its top edge y-50,
\* or y+10 when y-50 is negative, w the width of the tooltip's box; for a
\* pointer 5 px from the right edge the tooltip lies left of the pointer.  A
\* tooltip opened by a long press is placed in the same way at the touch
C20_TooltipFlip ==
    /\ (~IsMobile(width) /\ lastEvent.type \in {"mouseover", "mousemove"}) =>
          /\ PlacedAt(lastEvent.point, IF tooltip.display = "block" THEN tooltip.w ELSE 0)
          /\ (lastEvent.point[1] = InnerWidth(width) - 5 /\ tooltip.display = "block") =>
                tooltip.left + tooltip.w < lastEvent.point[1]
    /\ (IsMobile(width) /\ tooltip.display = "block") =>
          PlacedAt(presses[tooltip.press].point, tooltip.w)

\* the pointer is 5 px from the right edge and the displayed tooltip ends 15 px
\* left of it
C20_Witness ==
    /\ ~IsMobile(width)
    /\ lastEvent.type = "mousemove"
    /\ lastEvent.point = <<InnerWidth(width) - 5, 50>>
    /\ tooltip.display = "block"
    /\ tooltip.left + tooltip.w = lastEvent.point[1] - 15
    /\ tooltip.top = 0

(***************************************************************************)
(* The home page.                                                          *)
(***************************************************************************)
\* C21: once the page is mounted the data is reloaded automatically every 60
\* seconds without any user action: when 60 s have passed since the mount and
\* the user did nothing, the interval has reloaded the data at least once.
C21_AutomaticRefresh ==
    (~userActed /\ elapsed >= RefreshTicks) => autoLoads >= 1

\* C24: when loads overlap and their responses arrive in any order, the data
\* shown once all of them have completed is the data of the request issued
\* last (here: when that request succeeded).
C24_LatestRequestWins ==
    (/\ checking = 0
     /\ InFlight = {}
     /\ Len(loads) > 0
     /\ loads[Len(loads)] = "ok") => shown = Len(loads)

\* C25: the loading flag is true whenever at least one load is in flight and
\* false when none is.
C25_LoadingFlag == loading <=> InFlight # {}

(***************************************************************************)
(* fetchRealTimeStockData.                                                 *)
(***************************************************************************)
Quoted(answer, minFields) ==
    {k \in 1..Len(answer.lines) : answer.lines[k].fields >= minFields}

BackupGaveNothing == backup.failed \/ Quoted(backup, TencentMinFields) = {}

\* C22: fetchRealTimeStockData never rejects; Tencent is asked only after the
\* request to Sina has failed; generated data is returned only after Sina
\* failed and Tencent gave null or nothing; a successful answer of Sina is
\* returned without Tencent or the generator being touched.
C22_FallbackChain ==
    /\ pc # "rejected"
    /\ Len(asked) > 1 => (pc # "primary" /\ primary.failed)
    /\ generated => (primary.failed /\ pc = "returned" /\ BackupGaveNothing)
    /\ (pc = "returned" /\ ~primary.failed) =>
           /\ asked = <<"sina">>
           /\ ~generated
           /\ backup = NoAnswer
           /\ \A k \in 1..Len(result) : result[k].source = "sina"
           /\ Len(result) = Cardinality(Quoted(primary, SinaMinFields))
    /\ (pc = "returned" /\ primary.failed /\ ~BackupGaveNothing) =>
           /\ ~generated
           /\ \A k \in 1..Len(result) : result[k].source = "tencent"
    /\ (pc = "returned" /\ primary.failed /\ BackupGaveNothing) =>
           /\ generated
           /\ Len(result) = Len(stockCodes)
           /\ \A k \in 1..Len(result) : result[k].source = "fallback"

C22_Witness ==
    /\ pc = "returned"
    /\ primary.failed
    /\ ~backup.failed /\ backup.lines # <<>> /\ BackupGaveNothing
    /\ generated
    /\ stockCodes # <<>>

\* C23: for every non-empty list of codes the list returned is non-empty, in
\* every outcome of the two sources, a Sina answer without a parsable quote
\* line among them.
C23_NonEmptyResult == (pc = "returned" /\ stockCodes # <<>>) => result # <<>>

(***************************************************************************)
(* The xueqiu url.                                                         *)
(***************************************************************************)
\* C26: for every stock code, the fallback url StockHeatmap builds when the
\* link resolution fails is the url the xueqiu-link route returns for that
\* code.
C26_FallbackAgrees == (url # <<>> /\ fallbackUrl # <<>>) => fallbackUrl = url

(***************************************************************************)
(* Stock rectangles inside their sector.                                   *)
(***************************************************************************)
\* C27: every stock rectangle rendered lies inside its sector's rectangle and
\* entirely below the sector's header strip (24 px mobile, 30 px desktop), for
\* every sector rectangle that passes the skip test, the sectors narrower than
\* the reserved horizontal padding among them (in every frame drawn from the
\* current props).
C27_Containment ==
    ShowsSectors =>
        \A i \in 1..Len(svg) : \A j \in 1..Len(svg[i].stocks) :
            LET g == svg[i]
                c == g.stocks[j]
            IN  /\ g.x <= c.x
                /\ c.x + c.width <= g.x + g.width
                /\ g.y + TitleHeight(IsMobile(width)) <= c.y
                /\ c.y + c.height <= g.y + g.height

C27_Witness ==
    /\ ShowsSectors
    /\ \E i \in 1..Len(svg) :
        /\ svg[i].stocks # <<>>
        /\ svg[i].width < SectorInset(IsMobile(width))
    /\ \E i \in 1..Len(svg) : \E j \in 1..Len(svg[i].stocks) :
        svg[i].stocks[j].width > 0 /\ svg[i].stocks[j].height > 0

(***************************************************************************)
(* The tooltip and the viewport.                                           *)
(***************************************************************************)
\* C29: for every pointer position inside the viewport and every tooltip size
\* not larger than the viewport, the position updateTooltipPosition computes
\* keeps the whole tooltip inside the viewport: left edge >= 0, right edge <=
\* viewport width, top edge >= 0, bottom edge <= viewport height.
C29_TooltipInViewport ==
    position.set =>
        /\ 0 <= position.left
        /\ position.left + box[1] <= viewport[1]
        /\ 0 <= position.top
        /\ position.top + box[2] <= viewport[2]

====
